---- MODULE Spec2Model ----
(***************************************************************************)
(* Verification model of the USV data pipeline (elysium-usv).              *)
(*                                                                         *)
(* The pipeline is four workers of one process (FTP ingest, validation,    *)
(* transfer, cleanup) that coordinate only through three work queues, the  *)
(* metadata of the blobs in the local container, the remote S3 bucket and  *)
(* the audit directory.  Every call a worker makes to one of these stores  *)
(* is one step of the model, so that the calls of different workers        *)
(* interleave as they do in the process.                                   *)
(***************************************************************************)
EXTENDS Integers, Sequences, FiniteSets, TLC

\* ------------------------------------------------------------------------
\* Bounds of the model
\* ------------------------------------------------------------------------
MaxAdmits == 2        \* admissions offered by the producers (drop deposits + direct uploads)
MaxFaults == 1        \* injected failures of store/queue calls and process crashes
MaxTime == 1          \* last value of the clock (clock unit: one second)
BatchSize == 2        \* cfg.ProcessingBatchSize
RetentionPeriod == 0  \* cfg.RetentionDays * 24h, in clock units
RetryCount == 2       \* cfg.OperationRetryCount, at most
MaxStarts == 2        \* calls of Worker.Start on one worker
MaxWorkers == 5       \* workers handed to RegisterWorkerStatusEndpoints

\* ------------------------------------------------------------------------
\* Names, payloads and digests
\* ------------------------------------------------------------------------
Files == {"Aa", "BB"}
Bytes == {"b1", "b2"}
Nil == "<nil>"
NoTime == -1
NoDest == <<>>
BucketName == "revelare-vessel-data"

\* ASCII codes of the characters of the names used by the model.
Ascii(s) ==
    CASE s = "unknown" -> <<117, 110, 107, 110, 111, 119, 110>>
      [] s = "Aa" -> <<65, 97>>
      [] s = "BB" -> <<66, 66>>
      [] s = "/" -> <<47>>

\* vessel id the ingest derives from a file name: neither "-EKI" nor
\* "VESSEL" occurs in the file names of the model.
ExtractVesselID(f) == "unknown"

\* blob name "<vesselID>/<dataFileName>", kept as its path segments
BlobNameOf(f) == <<ExtractVesselID(f), f>>

Paths == {BlobNameOf(f) : f \in Files}

\* the characters of a blob name
BlobChars(p) == Ascii(p[1]) \o Ascii("/") \o Ascii(p[2])

\* lowercase hex digests (hex.EncodeToString) of the payloads
MD5Hex(b) == IF b = "b1" THEN "m1" ELSE "m2"
SHA256Hex(b) == IF b = "b1" THEN "s1" ELSE "s2"
BadDigest == "00"

ToUpper(s) ==
    CASE s = "m1" -> "M1" [] s = "m2" -> "M2"
      [] s = "s1" -> "S1" [] s = "s2" -> "S2"
      [] s = "md5" -> "MD5" [] s = "sha256" -> "SHA256"
      [] OTHER -> s

ToLower(s) ==
    CASE s = "M1" -> "m1" [] s = "M2" -> "m2"
      [] s = "S1" -> "s1" [] s = "S2" -> "s2"
      [] s = "MD5" -> "md5" [] s = "SHA256" -> "sha256"
      [] OTHER -> s

EqualFold(a, b) == ToLower(a) = ToLower(b)

\* ------------------------------------------------------------------------
\* Blob metadata
\* ------------------------------------------------------------------------
EmptyMetadata ==
    [checksum |-> Nil, vesselid |-> Nil, timestamp |-> NoTime,
     checksumAlgorithm |-> Nil,
     validationstatus |-> Nil, validationtimestamp |-> NoTime,
     transferstatus |-> Nil, transfertimestamp |-> NoTime,
     s3destination |-> NoDest, s3etag |-> Nil]

AdmissionMetadata(hash, vessel, alg, t) ==
    [EmptyMetadata EXCEPT !.checksum = hash, !.vesselid = vessel,
                          !.timestamp = t, !.checksumAlgorithm = alg]

NoBlob == [exists |-> FALSE]
Blob(b, md, t) == [exists |-> TRUE, bytes |-> b, metadata |-> md, lastModified |-> t]

\* a drop entry: the payload X (its bytes) and the text of its companion
\* X.md5 ("<digest>  <name>"), either of which may be missing
NoFile == [data |-> Nil, md5 |-> <<>>]
DropFile(b, h, f) == [data |-> b, md5 |-> <<h, f>>]

\* ------------------------------------------------------------------------
\* Queues and remote keys
\* ------------------------------------------------------------------------
ValidationQueue == "validation-queue"
TransferQueue == "transfer-queue"
CleanupQueue == "cleanup-queue"
Queues == {ValidationQueue, TransferQueue, CleanupQueue}

BuildObjectKey(vesselID, blobName) == <<vesselID, "data", blobName>>

S3Keys == {BuildObjectKey(p[1], p[2]) : p \in Paths}

\* ------------------------------------------------------------------------
\* State
\* ------------------------------------------------------------------------
VARIABLES
    now,          \* wall clock, seconds
    drop,         \* files of the FTP drop
    blobs,        \* the blob container: bytes, metadata, last-modified per name
    qVisible,     \* per queue and body: number of visible messages
    qInvisible,   \* per queue and body: number of dequeued, unacknowledged messages
    s3,           \* remote bucket: bytes per key
    audit,        \* audit directory: one record per file name audit_<certificateId>.json
    fw, vw, tw, cw,   \* position and locals of the ingest/validation/transfer/cleanup worker
                      \* (vw.was, tw.was: the stage status the worker found on the blob)
    admits,       \* admissions offered so far
    faults,       \* failures injected so far
    everTransferred,  \* history: names on which a transfer set transferstatus
    landed,       \* history: [name, key, bytes] uploaded and observed present
    deletes,      \* history: the blob deletes performed by cleanup, in order
    status,       \* Worker.status
    cancelled,    \* Worker.ctx is cancelled
    routines,     \* the goroutines started by Worker.Start: position in run/process
    ctl,          \* the caller of Start and Stop: position and last call returned
    sd,           \* the main goroutine in handleGracefulShutdown, and its deadline
    srv,          \* the server's registered worker statuses and its last health response
    retryCount,   \* Worker.retryCount
    call          \* a function invoked on its own: its name, arguments and result

\* the worker runtime and the HTTP server
runtime == <<status, cancelled, routines, ctl, sd, srv, retryCount, call>>

\* the pipeline
pipeline == <<now, drop, blobs, qVisible, qInvisible, s3, audit, fw, vw, tw, cw,
              admits, faults, everTransferred, landed, deletes>>

vars == <<now, drop, blobs, qVisible, qInvisible, s3, audit, fw, vw, tw, cw,
          admits, faults, everTransferred, landed, deletes, runtime>>

stores == <<drop, blobs, qVisible, qInvisible, s3, audit>>
history == <<everTransferred, landed, deletes>>

IdleWorker == [pc |-> "idle", batch |-> <<>>]

\* a worker status, kept as the pieces it is formatted from:
\* "running", "stopped", fmt.Sprintf("error: %v", err)
Running == <<"running">>
Stopped == <<"stopped">>
ErrorStatus(err) == <<"error", ": ", err>>

\* a goroutine slot of the worker: not started yet
NoRoutine == [pc |-> "none", attempt |-> 0, err |-> Nil]

\* a status tracker of the server that is nil; a tracker that is set holds
\* the position of its worker among the registered ones
NoWorker == 0

\* no worker is registered with the server, no health request was served
NoServer ==
    [registered |-> FALSE, workers |-> <<>>,
     validationWorker |-> NoWorker, transferWorker |-> NoWorker,
     cleanupWorker |-> NoWorker, ftpWorker |-> NoWorker,
     additionalWorkers |-> <<>>, response |-> 0]

\* no function is being invoked on its own
NoCall == [fn |-> Nil]

\* NewWorker: status "stopped", a fresh context; nothing started
RuntimeInit ==
    /\ status = Stopped
    /\ cancelled = FALSE
    /\ routines = [i \in 1..MaxStarts |-> NoRoutine]
    /\ ctl = [pc |-> "idle", last |-> "none"]
    /\ sd = [pc |-> "off", deadline |-> FALSE]
    /\ srv = NoServer
    /\ retryCount = RetryCount
    /\ call = NoCall

PipelineInit ==
    /\ now = 0
    /\ drop = [f \in Files |-> NoFile]
    /\ blobs = [p \in Paths |-> NoBlob]
    /\ qVisible = [q \in Queues |-> [p \in Paths |-> 0]]
    /\ qInvisible = [q \in Queues |-> [p \in Paths |-> 0]]
    /\ s3 = [k \in S3Keys |-> Nil]
    /\ audit = {}
    /\ fw = IdleWorker
    /\ vw = IdleWorker
    /\ tw = IdleWorker
    /\ cw = IdleWorker
    /\ admits = 0
    /\ faults = 0
    /\ everTransferred = {}
    /\ landed = {}
    /\ deletes = <<>>

Init == PipelineInit /\ RuntimeInit

\* ------------------------------------------------------------------------
\* Queue gateway
\* ------------------------------------------------------------------------
RECURSIVE SumOver(_, _)
SumOver(f, S) ==
    IF S = {} THEN 0
    ELSE LET x == CHOOSE y \in S : TRUE IN f[x] + SumOver(f, S \ {x})

Count(s, p) == Cardinality({i \in DOMAIN s : s[i] = p})

Min(a, b) == IF a < b THEN a ELSE b

\* the batches DequeueMessages can return: up to n of the visible messages
DequeueBatches(q, n) ==
    LET k == Min(n, SumOver(qVisible[q], Paths)) IN
    {s \in [1..k -> Paths] : \A p \in Paths : Count(s, p) <= qVisible[q][p]}

\* the dequeued messages are hidden for the visibility timeout
Hidden(q, s) ==
    /\ qVisible' = [qVisible EXCEPT ![q] = [p \in Paths |-> @[p] - Count(s, p)]]
    /\ qInvisible' = [qInvisible EXCEPT ![q] = [p \in Paths |-> @[p] + Count(s, p)]]

EnqueuedIn(qv, q, p) == [qv EXCEPT ![q][p] = @ + 1]

\* DeleteMessage of a message the worker holds; its visibility timeout may
\* have expired in the meantime
DeletedFrom(qv, qi, q, p) ==
    IF qi[q][p] > 0
    THEN <<qv, [qi EXCEPT ![q][p] = @ - 1]>>
    ELSE <<[qv EXCEPT ![q][p] = @ - 1], qi>>

\* a hidden message reappears when its visibility timeout expires
VisibilityTimeout(q, p) ==
    /\ qInvisible[q][p] > 0
    /\ qInvisible' = [qInvisible EXCEPT ![q][p] = @ - 1]
    /\ qVisible' = [qVisible EXCEPT ![q][p] = @ + 1]
    /\ UNCHANGED <<now, drop, blobs, s3, audit, fw, vw, tw, cw, admits, runtime, faults, history>>

\* `continue`: the worker goes on with the next message of its batch
Continue(w, first) ==
    IF Len(w.batch) > 1
    THEN [pc |-> first, batch |-> Tail(w.batch)]
    ELSE IdleWorker

CanFail == faults < MaxFaults

\* ------------------------------------------------------------------------
\* Clock and producers
\* ------------------------------------------------------------------------
Tick ==
    /\ now < MaxTime
    /\ now' = now + 1
    /\ UNCHANGED <<stores, fw, vw, tw, cw, admits, runtime, faults, history>>

\* the ground station deposits a payload and its companion digest file
Deposit(f, b, h) ==
    /\ admits < MaxAdmits
    /\ admits' = admits + 1
    /\ drop' = [drop EXCEPT ![f] = DropFile(b, h, f)]
    /\ UNCHANGED <<now, blobs, qVisible, qInvisible, s3, audit, fw, vw, tw, cw, faults, runtime, history>>

\* upload_file of the test uploader: blob with SHA256 metadata, then a
\* validation message
UploadFile(p, b, c) ==
    /\ admits < MaxAdmits
    /\ admits' = admits + 1
    /\ blobs' = [blobs EXCEPT ![p] = Blob(b, AdmissionMetadata(c, p[1], "SHA256", now), now)]
    /\ qVisible' = EnqueuedIn(qVisible, ValidationQueue, p)
    /\ UNCHANGED <<now, drop, qInvisible, s3, audit, fw, vw, tw, cw, faults, runtime, history>>

\* ------------------------------------------------------------------------
\* Ingest worker (FTPWorker)
\* ------------------------------------------------------------------------
Perms(S) == {s \in [1..Cardinality(S) -> S] : \A i, j \in DOMAIN s : s[i] = s[j] => i = j}

\* first whitespace-separated token of the companion file
readMD5FromFile(text) == Head(text)

\* loop head of processFTPFiles: stop at batchSize processed files
FtpContinue(w, processed) ==
    IF Len(w.batch) > 1 /\ processed < BatchSize
    THEN [pc |-> "retr", batch |-> Tail(w.batch), processed |-> processed]
    ELSE IdleWorker

\* conn.List: the *.md5 entries whose data file is listed too
FtpList ==
    /\ fw.pc = "idle"
    /\ LET found == {f \in Files : drop[f].md5 # <<>> /\ drop[f].data # Nil} IN
       /\ found # {}
       /\ \E s \in Perms(found) : fw' = [pc |-> "retr", batch |-> s, processed |-> 0]
    /\ UNCHANGED <<now, stores, vw, tw, cw, admits, runtime, faults, history>>

\* mutant: the downloaded payload is admitted without comparing the digests
FtpRetrUnverified ==
    /\ fw.pc = "retr"
    /\ LET f == Head(fw.batch) IN
       \/ /\ drop[f].md5 # <<>> /\ drop[f].data # Nil
          /\ fw' = [fw EXCEPT !.pc = "upload"] @@
                   [data |-> drop[f].data, hash |-> readMD5FromFile(drop[f].md5)]
          /\ UNCHANGED faults
       \/ /\ CanFail \/ drop[f].md5 = <<>> \/ drop[f].data = Nil
          /\ faults' = IF drop[f].md5 = <<>> \/ drop[f].data = Nil THEN faults ELSE faults + 1
          /\ fw' = FtpContinue(fw, fw.processed)
    /\ UNCHANGED <<now, stores, vw, tw, cw, admits, runtime, history>>

\* download the companion and the data file, compare the digests
FtpRetr ==
    /\ fw.pc = "retr"
    /\ LET f == Head(fw.batch) IN
       \/ /\ drop[f].md5 # <<>> /\ drop[f].data # Nil
          /\ LET hash == readMD5FromFile(drop[f].md5)
                 calculatedHash == MD5Hex(drop[f].data) IN
             fw' = IF calculatedHash # hash
                   THEN FtpContinue(fw, fw.processed)
                   ELSE [fw EXCEPT !.pc = "upload"] @@ [data |-> drop[f].data, hash |-> hash]
          /\ UNCHANGED faults
       \/ /\ CanFail \/ drop[f].md5 = <<>> \/ drop[f].data = Nil
          /\ faults' = IF drop[f].md5 = <<>> \/ drop[f].data = Nil THEN faults ELSE faults + 1
          /\ fw' = FtpContinue(fw, fw.processed)
    /\ UNCHANGED <<now, stores, vw, tw, cw, admits, runtime, history>>

\* UploadBuffer: create or overwrite the blob with bytes and admission metadata
FtpUploadBuffer ==
    /\ fw.pc = "upload"
    /\ LET f == Head(fw.batch) IN
       \/ /\ blobs' = [blobs EXCEPT ![BlobNameOf(f)] =
                          Blob(fw.data, AdmissionMetadata(fw.hash, ExtractVesselID(f), "MD5", now), now)]
          /\ fw' = [fw EXCEPT !.pc = "enqueue"]
          /\ UNCHANGED faults
       \/ /\ CanFail
          /\ faults' = faults + 1
          /\ fw' = FtpContinue(fw, fw.processed)
          /\ UNCHANGED blobs
    /\ UNCHANGED <<now, drop, qVisible, qInvisible, s3, audit, vw, tw, cw, admits, runtime, history>>

\* queue the validation, then delete both files from the FTP server (a
\* failed delete is only logged)
FtpEnqueue ==
    /\ fw.pc = "enqueue"
    /\ LET f == Head(fw.batch) IN
       \/ /\ qVisible' = EnqueuedIn(qVisible, ValidationQueue, BlobNameOf(f))
          /\ fw' = FtpContinue(fw, fw.processed + 1)
          /\ \/ /\ drop' = [drop EXCEPT ![f] = NoFile]
                /\ UNCHANGED faults
             \/ /\ CanFail
                /\ faults' = faults + 1
                /\ \E kept \in {"data", "md5"} :
                      drop' = [drop EXCEPT ![f] = IF kept = "data"
                                                  THEN [@ EXCEPT !.md5 = <<>>]
                                                  ELSE [@ EXCEPT !.data = Nil]]
       \/ /\ CanFail
          /\ faults' = faults + 1
          /\ fw' = FtpContinue(fw, fw.processed)
          /\ UNCHANGED <<drop, qVisible>>
    /\ UNCHANGED <<now, blobs, qInvisible, s3, audit, vw, tw, cw, admits, runtime, history>>

\* ------------------------------------------------------------------------
\* Validation worker
\* ------------------------------------------------------------------------
calculateMD5(data) == MD5Hex(data)
calculateSHA256(data) == SHA256Hex(data)

getValidationStatus(isValid) == IF isValid THEN "valid" ELSE "invalid"

\* DequeueMessages of processValidationQueue
ValDequeue ==
    /\ vw.pc = "idle"
    /\ \E s \in DequeueBatches(ValidationQueue, BatchSize) :
          /\ s # <<>>
          /\ Hidden(ValidationQueue, s)
          /\ vw' = [pc |-> "getProperties", batch |-> s]
    /\ UNCHANGED <<now, drop, blobs, s3, audit, fw, tw, cw, admits, runtime, faults, history>>

\* ValidateBlob: GetProperties, expected checksum and algorithm from the metadata
ValGetProperties ==
    /\ vw.pc = "getProperties"
    /\ LET p == Head(vw.batch) IN
       \/ /\ blobs[p].exists
          /\ LET metadata == blobs[p].metadata IN
             vw' = IF metadata.checksum = Nil
                   THEN Continue(vw, "getProperties")
                   ELSE [vw EXCEPT !.pc = "verifyChecksum"] @@
                        [props |-> metadata, was |-> metadata.validationstatus,
                         expectedChecksum |-> metadata.checksum,
                         algorithm |-> IF metadata.checksumAlgorithm # Nil
                                       THEN metadata.checksumAlgorithm ELSE "SHA256"]
          /\ UNCHANGED faults
       \/ /\ CanFail \/ ~blobs[p].exists
          /\ faults' = IF blobs[p].exists THEN faults + 1 ELSE faults
          /\ vw' = Continue(vw, "getProperties")
    /\ UNCHANGED <<now, stores, fw, tw, cw, admits, runtime, history>>

\* VerifyChecksum: download the blob, digest it, compare case-insensitively
VerifyChecksum(data, expectedChecksum, algorithm) ==
    LET alg == ToUpper(algorithm) IN
    IF alg = "MD5" THEN [err |-> FALSE, isValid |-> EqualFold(calculateMD5(data), expectedChecksum)]
    ELSE IF alg \in {"SHA256", ""} THEN [err |-> FALSE, isValid |-> EqualFold(calculateSHA256(data), expectedChecksum)]
    ELSE [err |-> TRUE, isValid |-> FALSE]

ValVerifyChecksum ==
    /\ vw.pc = "verifyChecksum"
    /\ LET p == Head(vw.batch) IN
       \/ /\ blobs[p].exists
          /\ LET r == VerifyChecksum(blobs[p].bytes, vw.expectedChecksum, vw.algorithm) IN
             vw' = IF r.err
                   THEN Continue(vw, "getProperties")
                   ELSE [pc |-> "setMetadata", batch |-> vw.batch, was |-> vw.was,
                         props |-> vw.props, isValid |-> r.isValid]
          /\ UNCHANGED faults
       \/ /\ CanFail \/ ~blobs[p].exists
          /\ faults' = IF blobs[p].exists THEN faults + 1 ELSE faults
          /\ vw' = Continue(vw, "getProperties")
    /\ UNCHANGED <<now, stores, fw, tw, cw, admits, runtime, history>>

\* the metadata ValidateBlob writes back: the metadata read by GetProperties
\* plus the validation fields
ValidatedMetadata(props, isValid, t) ==
    [props EXCEPT !.validationstatus = getValidationStatus(isValid),
                  !.validationtimestamp = t]

\* mutant: the error of SetMetadata is ignored
ValSetMetadataUnchecked ==
    /\ vw.pc = "setMetadata"
    /\ LET p == Head(vw.batch) IN
       \/ /\ blobs[p].exists
          /\ blobs' = [blobs EXCEPT ![p].metadata = ValidatedMetadata(vw.props, vw.isValid, now),
                                    ![p].lastModified = now]
          /\ UNCHANGED faults
       \/ /\ CanFail \/ ~blobs[p].exists
          /\ faults' = IF blobs[p].exists THEN faults + 1 ELSE faults
          /\ UNCHANGED blobs
    /\ vw' = [pc |-> "deleteMessage", batch |-> vw.batch, was |-> vw.was,
              isValid |-> vw.isValid]
    /\ UNCHANGED <<now, drop, qVisible, qInvisible, s3, audit, fw, tw, cw, admits, runtime, history>>

\* SetMetadata of ValidateBlob
ValSetMetadata ==
    /\ vw.pc = "setMetadata"
    /\ LET p == Head(vw.batch) IN
       \/ /\ blobs[p].exists
          /\ blobs' = [blobs EXCEPT ![p].metadata = ValidatedMetadata(vw.props, vw.isValid, now),
                                    ![p].lastModified = now]
          /\ vw' = [pc |-> "deleteMessage", batch |-> vw.batch, was |-> vw.was,
                    isValid |-> vw.isValid]
          /\ UNCHANGED faults
       \/ /\ CanFail \/ ~blobs[p].exists
          /\ faults' = IF blobs[p].exists THEN faults + 1 ELSE faults
          /\ vw' = Continue(vw, "getProperties")
          /\ UNCHANGED blobs
    /\ UNCHANGED <<now, drop, qVisible, qInvisible, s3, audit, fw, tw, cw, admits, runtime, history>>

\* DeleteMessage, then (if valid) QueueTransferTaskInternal, whose failure is
\* only logged
ValDeleteMessage ==
    /\ vw.pc = "deleteMessage"
    /\ LET p == Head(vw.batch)
           d == DeletedFrom(qVisible, qInvisible, ValidationQueue, p) IN
       \/ /\ qInvisible' = d[2]
          /\ \/ /\ qVisible' = IF vw.isValid THEN EnqueuedIn(d[1], TransferQueue, p) ELSE d[1]
                /\ UNCHANGED faults
             \/ /\ CanFail /\ vw.isValid
                /\ faults' = faults + 1
                /\ qVisible' = d[1]
       \/ /\ CanFail
          /\ faults' = faults + 1
          /\ UNCHANGED <<qVisible, qInvisible>>
    /\ vw' = Continue(vw, "getProperties")
    /\ UNCHANGED <<now, drop, blobs, s3, audit, fw, tw, cw, admits, runtime, history>>

\* ------------------------------------------------------------------------
\* Transfer worker
\* ------------------------------------------------------------------------
\* the ETag header of a PutObject response: the quoted MD5 of the body
PutObjectETag(data) == <<"\"", MD5Hex(data), "\"">>

\* strings.Trim(etag, "\"")
TrimQuotes(e) ==
    IF Len(e) >= 2 /\ e[1] = "\"" /\ e[Len(e)] = "\"" THEN e[2] ELSE e[1]

\* DequeueMessages of processTransferQueue
TrDequeue ==
    /\ tw.pc = "idle"
    /\ \E s \in DequeueBatches(TransferQueue, BatchSize) :
          /\ s # <<>>
          /\ Hidden(TransferQueue, s)
          /\ tw' = [pc |-> "getBlobInfo", batch |-> s]
    /\ UNCHANGED <<now, drop, blobs, s3, audit, fw, vw, cw, admits, runtime, faults, history>>

\* mutant: the validation check is dropped
TrGetBlobInfoUnchecked ==
    /\ tw.pc = "getBlobInfo"
    /\ LET p == Head(tw.batch) IN
       \/ /\ blobs[p].exists
          /\ tw' = [pc |-> "download", batch |-> tw.batch, info |-> blobs[p].metadata,
                    was |-> blobs[p].metadata.transferstatus]
          /\ UNCHANGED faults
       \/ /\ CanFail \/ ~blobs[p].exists
          /\ faults' = IF blobs[p].exists THEN faults + 1 ELSE faults
          /\ tw' = Continue(tw, "getBlobInfo")
    /\ UNCHANGED <<now, stores, fw, vw, cw, admits, runtime, history>>

\* TransferValidatedBlob: getBlobInfo and the validation check
TrGetBlobInfo ==
    /\ tw.pc = "getBlobInfo"
    /\ LET p == Head(tw.batch) IN
       \/ /\ blobs[p].exists
          /\ LET metadata == blobs[p].metadata IN
             tw' = IF metadata.validationstatus # "valid"
                   THEN Continue(tw, "getBlobInfo")
                   ELSE [pc |-> "download", batch |-> tw.batch, info |-> metadata,
                         was |-> metadata.transferstatus]
          /\ UNCHANGED faults
       \/ /\ CanFail \/ ~blobs[p].exists
          /\ faults' = IF blobs[p].exists THEN faults + 1 ELSE faults
          /\ tw' = Continue(tw, "getBlobInfo")
    /\ UNCHANGED <<now, stores, fw, vw, cw, admits, runtime, history>>

\* vessel id from the metadata, else the first segment of the blob name;
\* file name = filepath.Base(blobName)
S3KeyFor(p, metadata) ==
    LET vesselID == IF metadata.vesselid \in {Nil, ""} THEN p[1] ELSE metadata.vesselid
        fileName == p[Len(p)] IN
    BuildObjectKey(vesselID, fileName)

\* DownloadStream
TrDownload ==
    /\ tw.pc = "download"
    /\ LET p == Head(tw.batch) IN
       \/ /\ blobs[p].exists
          /\ tw' = [pc |-> "upload", batch |-> tw.batch, was |-> tw.was,
                    data |-> blobs[p].bytes, s3Key |-> S3KeyFor(p, tw.info)]
          /\ UNCHANGED faults
       \/ /\ CanFail \/ ~blobs[p].exists
          /\ faults' = IF blobs[p].exists THEN faults + 1 ELSE faults
          /\ tw' = Continue(tw, "getBlobInfo")
    /\ UNCHANGED <<now, stores, fw, vw, cw, admits, runtime, history>>

\* mutant: the error of UploadObject is ignored
TrUploadObjectUnchecked ==
    /\ tw.pc = "upload"
    /\ \/ /\ s3' = [s3 EXCEPT ![tw.s3Key] = tw.data]
          /\ landed' = landed \cup {[name |-> Head(tw.batch), key |-> tw.s3Key, bytes |-> tw.data]}
          /\ UNCHANGED faults
       \/ /\ CanFail
          /\ faults' = faults + 1
          /\ UNCHANGED <<s3, landed>>
    /\ tw' = [pc |-> "getProperties", batch |-> tw.batch, was |-> tw.was, s3Key |-> tw.s3Key,
              etag |-> TrimQuotes(PutObjectETag(tw.data))]
    /\ UNCHANGED <<now, drop, blobs, qVisible, qInvisible, audit, fw, vw, cw, admits, runtime,
                   everTransferred, deletes>>

\* UploadObject (PutObject, then its own VerifyObject) followed by the
\* VerifyObject of TransferValidatedBlob; the bucket has no other writer
TrUploadObject ==
    /\ tw.pc = "upload"
    /\ \/ /\ s3' = [s3 EXCEPT ![tw.s3Key] = tw.data]
          /\ \/ /\ s3'[tw.s3Key] # Nil    \* HeadObject: the object exists
                /\ tw' = [pc |-> "getProperties", batch |-> tw.batch, was |-> tw.was,
                          s3Key |-> tw.s3Key,
                          etag |-> TrimQuotes(PutObjectETag(tw.data))]
                /\ landed' = landed \cup {[name |-> Head(tw.batch), key |-> tw.s3Key, bytes |-> tw.data]}
                /\ UNCHANGED faults
             \/ /\ CanFail                 \* HeadObject fails after the put
                /\ faults' = faults + 1
                /\ tw' = Continue(tw, "getBlobInfo")
                /\ UNCHANGED landed
       \/ /\ CanFail                       \* PutObject fails
          /\ faults' = faults + 1
          /\ tw' = Continue(tw, "getBlobInfo")
          /\ UNCHANGED <<s3, landed>>
    /\ UNCHANGED <<now, drop, blobs, qVisible, qInvisible, audit, fw, vw, cw, admits, runtime,
                   everTransferred, deletes>>

\* GetProperties "again to get current metadata"
TrGetProperties ==
    /\ tw.pc = "getProperties"
    /\ LET p == Head(tw.batch) IN
       \/ /\ blobs[p].exists
          /\ tw' = [pc |-> "setMetadata", batch |-> tw.batch, was |-> tw.was,
                    s3Key |-> tw.s3Key,
                    etag |-> tw.etag, props |-> blobs[p].metadata]
          /\ UNCHANGED faults
       \/ /\ CanFail \/ ~blobs[p].exists
          /\ faults' = IF blobs[p].exists THEN faults + 1 ELSE faults
          /\ tw' = Continue(tw, "getBlobInfo")
    /\ UNCHANGED <<now, stores, fw, vw, cw, admits, runtime, history>>

\* the metadata TransferValidatedBlob writes back
TransferredMetadata(props, s3Key, etag, t) ==
    [props EXCEPT !.transferstatus = "transferred",
                  !.transfertimestamp = t,
                  !.s3destination = <<BucketName>> \o s3Key,
                  !.s3etag = IF etag # "" THEN etag ELSE @]

TrSetMetadata ==
    /\ tw.pc = "setMetadata"
    /\ LET p == Head(tw.batch) IN
       \/ /\ blobs[p].exists
          /\ blobs' = [blobs EXCEPT ![p].metadata = TransferredMetadata(tw.props, tw.s3Key, tw.etag, now),
                                    ![p].lastModified = now]
          /\ everTransferred' = everTransferred \cup {p}
          /\ tw' = [pc |-> "deleteMessage", batch |-> tw.batch, was |-> tw.was]
          /\ UNCHANGED faults
       \/ /\ CanFail \/ ~blobs[p].exists
          /\ faults' = IF blobs[p].exists THEN faults + 1 ELSE faults
          /\ tw' = Continue(tw, "getBlobInfo")
          /\ UNCHANGED <<blobs, everTransferred>>
    /\ UNCHANGED <<now, drop, qVisible, qInvisible, s3, audit, fw, vw, cw, admits, runtime, landed, deletes>>

\* mutant: the cleanup task is queued although DeleteMessage failed
TrDeleteMessageThenQueueAnyway ==
    /\ tw.pc = "deleteMessage"
    /\ LET p == Head(tw.batch)
           d == DeletedFrom(qVisible, qInvisible, TransferQueue, p) IN
       \/ /\ qInvisible' = d[2]
          /\ \/ /\ qVisible' = EnqueuedIn(d[1], CleanupQueue, p)
                /\ UNCHANGED faults
             \/ /\ CanFail
                /\ faults' = faults + 1
                /\ qVisible' = d[1]
       \/ /\ CanFail
          /\ faults' = faults + 1
          /\ qVisible' = EnqueuedIn(qVisible, CleanupQueue, p)
          /\ UNCHANGED qInvisible
    /\ tw' = Continue(tw, "getBlobInfo")
    /\ UNCHANGED <<now, drop, blobs, s3, audit, fw, vw, cw, admits, runtime, history>>

\* DeleteMessage, then QueueCleanupTaskInternal, whose failure is only logged
TrDeleteMessage ==
    /\ tw.pc = "deleteMessage"
    /\ LET p == Head(tw.batch)
           d == DeletedFrom(qVisible, qInvisible, TransferQueue, p) IN
       \/ /\ qInvisible' = d[2]
          /\ \/ /\ qVisible' = EnqueuedIn(d[1], CleanupQueue, p)
                /\ UNCHANGED faults
             \/ /\ CanFail
                /\ faults' = faults + 1
                /\ qVisible' = d[1]
       \/ /\ CanFail
          /\ faults' = faults + 1
          /\ UNCHANGED <<qVisible, qInvisible>>
    /\ tw' = Continue(tw, "getBlobInfo")
    /\ UNCHANGED <<now, drop, blobs, s3, audit, fw, vw, cw, admits, runtime, history>>

\* ------------------------------------------------------------------------
\* Audit recorder
\* ------------------------------------------------------------------------
\* hashString: hash = 31*hash + s[i] over the bytes of s, masked to 32 bits;
\* the value is kept as its two 16-bit halves <<high, low>>
RECURSIVE hashFrom(_, _, _)
hashFrom(chars, hi, lo) ==
    IF chars = <<>> THEN <<hi, lo>>
    ELSE LET l == 31 * lo + Head(chars) IN
         hashFrom(Tail(chars), (31 * hi + (l \div 65536)) % 65536, l % 65536)

hashString(chars) == hashFrom(chars, 0, 0)

\* "deletion-<YYYYMMDD-HHMMSS>-<%08x hash>"
generateCertificateID(blobName, timestamp) ==
    <<"deletion", timestamp, hashString(BlobChars(blobName))>>

AuditRecord(blobName, s3Destination, t) ==
    LET certificateID == generateCertificateID(blobName, t) IN
    [ID |-> <<blobName, certificateID>>, BlobName |-> blobName,
     OperationType |-> "deletion", S3Destination |-> s3Destination,
     DeletionTime |-> t, CertificateID |-> certificateID]

\* os.WriteFile(audit_<certificateID>.json): creates the file or replaces
\* the file of that name
GenerateAuditCertificate(dir, blobName, s3Destination, t) ==
    LET record == AuditRecord(blobName, s3Destination, t) IN
    {r \in dir : r.CertificateID # record.CertificateID} \cup {record}

\* ------------------------------------------------------------------------
\* Cleanup worker
\* ------------------------------------------------------------------------
\* mutant: the transferred check is dropped
NotTransferredDropped(metadata) == FALSE

\* transferStatus != "transferred", transferStatus read from the key "transferstatus"
NotTransferred(metadata) == metadata.transferstatus # "transferred"

\* loop head of the two cleanup loops; the scan stops at batchSize cleaned blobs
ClContinue(w, processed) ==
    IF Len(w.batch) > 1 /\ (~w.scan \/ processed < BatchSize)
    THEN [pc |-> IF w.scan THEN "scanProperties" ELSE "getProperties",
          batch |-> Tail(w.batch), scan |-> w.scan, processed |-> processed]
    ELSE IdleWorker

\* DequeueMessages of processCleanupQueue returned messages
ClDequeue ==
    /\ cw.pc = "idle"
    /\ \E s \in DequeueBatches(CleanupQueue, BatchSize) :
          /\ s # <<>>
          /\ Hidden(CleanupQueue, s)
          /\ cw' = [pc |-> "getProperties", scan |-> FALSE, processed |-> 0,
                    batch |-> [i \in DOMAIN s |-> [name |-> s[i], lastModified |-> NoTime]]]
    /\ UNCHANGED <<now, drop, blobs, s3, audit, fw, vw, tw, admits, runtime, faults, history>>

\* DequeueMessages returned no message: processExpiredBlobs lists the container
ClListBlobs ==
    /\ cw.pc = "idle"
    /\ \A p \in Paths : qVisible[CleanupQueue][p] = 0
    /\ LET listed == {p \in Paths : blobs[p].exists} IN
       /\ listed # {}
       /\ \E s \in Perms(listed) :
             cw' = [pc |-> "scanProperties", scan |-> TRUE, processed |-> 0,
                    batch |-> [i \in DOMAIN s |->
                                 [name |-> s[i], lastModified |-> blobs[s[i]].lastModified]]]
    /\ UNCHANGED <<now, stores, fw, vw, tw, admits, runtime, faults, history>>

\* processExpiredBlobs, per listed blob: transferred and past retention?
ClScanProperties ==
    /\ cw.pc = "scanProperties"
    /\ LET item == Head(cw.batch) IN
       \/ /\ blobs[item.name].exists
          /\ cw' = IF NotTransferred(blobs[item.name].metadata)
                   THEN ClContinue(cw, cw.processed)
                   ELSE IF now - item.lastModified > RetentionPeriod
                   THEN [cw EXCEPT !.pc = "getProperties"]
                   ELSE ClContinue(cw, cw.processed)
          /\ UNCHANGED faults
       \/ /\ CanFail \/ ~blobs[item.name].exists
          /\ faults' = IF blobs[item.name].exists THEN faults + 1 ELSE faults
          /\ cw' = ClContinue(cw, cw.processed)
    /\ UNCHANGED <<now, stores, fw, vw, tw, admits, runtime, history>>

\* cleanupBlob: GetProperties and the transferred check
ClGetProperties ==
    /\ cw.pc = "getProperties"
    /\ LET p == Head(cw.batch).name IN
       \/ /\ blobs[p].exists
          /\ LET metadata == blobs[p].metadata IN
             cw' = IF NotTransferred(metadata)
                   THEN ClContinue(cw, cw.processed)
                   ELSE [cw EXCEPT !.pc = "certificate"] @@
                        [s3Destination |-> IF metadata.s3destination # NoDest
                                           THEN metadata.s3destination ELSE <<"unknown">>]
          /\ UNCHANGED faults
       \/ /\ CanFail \/ ~blobs[p].exists
          /\ faults' = IF blobs[p].exists THEN faults + 1 ELSE faults
          /\ cw' = ClContinue(cw, cw.processed)
    /\ UNCHANGED <<now, stores, fw, vw, tw, admits, runtime, history>>

\* mutant: a failed certificate write falls through to the delete
ClGenerateAuditCertificateFallsThrough ==
    /\ cw.pc = "certificate"
    /\ LET p == Head(cw.batch).name IN
       \/ /\ audit' = GenerateAuditCertificate(audit, p, cw.s3Destination, now)
          /\ UNCHANGED faults
       \/ /\ CanFail
          /\ faults' = faults + 1
          /\ UNCHANGED audit
    /\ cw' = [pc |-> "delete", batch |-> cw.batch, scan |-> cw.scan, processed |-> cw.processed]
    /\ UNCHANGED <<now, drop, blobs, qVisible, qInvisible, s3, fw, vw, tw, admits, runtime, history>>

\* cleanupBlob: the audit certificate is written before the delete
ClGenerateAuditCertificate ==
    /\ cw.pc = "certificate"
    /\ LET p == Head(cw.batch).name IN
       \/ /\ audit' = GenerateAuditCertificate(audit, p, cw.s3Destination, now)
          /\ cw' = [pc |-> "delete", batch |-> cw.batch, scan |-> cw.scan,
                    processed |-> cw.processed]
          /\ UNCHANGED faults
       \/ /\ CanFail
          /\ faults' = faults + 1
          /\ cw' = ClContinue(cw, cw.processed)
          /\ UNCHANGED audit
    /\ UNCHANGED <<now, drop, blobs, qVisible, qInvisible, s3, fw, vw, tw, admits, runtime, history>>

\* cleanupBlob: Delete of the blob; then, on the queue path, DeleteMessage
ClDelete ==
    /\ cw.pc = "delete"
    /\ LET p == Head(cw.batch).name
           d == DeletedFrom(qVisible, qInvisible, CleanupQueue, p) IN
       \/ /\ blobs[p].exists
          /\ blobs' = [blobs EXCEPT ![p] = NoBlob]
          /\ deletes' = Append(deletes, [name |-> p, bytes |-> blobs[p].bytes,
                                         transferstatus |-> blobs[p].metadata.transferstatus,
                                         time |-> now])
          /\ \/ /\ qVisible' = IF cw.scan THEN qVisible ELSE d[1]
                /\ qInvisible' = IF cw.scan THEN qInvisible ELSE d[2]
                /\ cw' = ClContinue(cw, IF cw.scan THEN cw.processed + 1 ELSE cw.processed)
                /\ UNCHANGED faults
             \/ /\ CanFail /\ ~cw.scan
                /\ faults' = faults + 1
                /\ cw' = ClContinue(cw, cw.processed)
                /\ UNCHANGED <<qVisible, qInvisible>>
       \/ /\ CanFail \/ ~blobs[p].exists
          /\ faults' = IF blobs[p].exists THEN faults + 1 ELSE faults
          /\ cw' = ClContinue(cw, cw.processed)
          /\ UNCHANGED <<blobs, deletes, qVisible, qInvisible>>
    /\ UNCHANGED <<now, drop, s3, audit, fw, vw, tw, admits, runtime, everTransferred, landed>>

\* ------------------------------------------------------------------------
\* Process crash and restart: the workers lose their position, the stores
\* keep their contents, dequeued messages stay hidden until their timeout
\* ------------------------------------------------------------------------
Crash ==
    /\ CanFail
    /\ fw.pc # "idle" \/ vw.pc # "idle" \/ tw.pc # "idle" \/ cw.pc # "idle"
    /\ faults' = faults + 1
    /\ fw' = IdleWorker /\ vw' = IdleWorker /\ tw' = IdleWorker /\ cw' = IdleWorker
    /\ UNCHANGED <<now, stores, admits, runtime, history>>

\* ------------------------------------------------------------------------
\* Specification
\* ------------------------------------------------------------------------
\* the producers of this specification offer one name, again and again;
\* the companion file is written by md5sum and the uploader's checksum by
\* sha256sum (lowercase hex), or it is a wrong digest
DropFiles == {"Aa"}
DepositDigests(b) == {MD5Hex(b), BadDigest}
UploadDigests(b) == {SHA256Hex(b), BadDigest}

\* the payloads are interchangeable: the first one offered is called b1
Offered == IF admits = 0 THEN {"b1"} ELSE Bytes

Next ==
    \/ Tick
    \/ \E f \in DropFiles, b \in Offered : \E h \in DepositDigests(b) : Deposit(f, b, h)
    \/ \E f \in DropFiles, b \in Offered : \E c \in UploadDigests(b) : UploadFile(BlobNameOf(f), b, c)
    \/ \E q \in Queues, p \in Paths : VisibilityTimeout(q, p)
    \/ FtpList \/ FtpRetr \/ FtpUploadBuffer \/ FtpEnqueue
    \/ ValDequeue \/ ValGetProperties \/ ValVerifyChecksum \/ ValSetMetadata \/ ValDeleteMessage
    \/ TrDequeue \/ TrGetBlobInfo \/ TrDownload \/ TrUploadObject \/ TrGetProperties
    \/ TrSetMetadata \/ TrDeleteMessage
    \/ ClDequeue \/ ClListBlobs \/ ClScanProperties \/ ClGetProperties
    \/ ClGenerateAuditCertificate \/ ClDelete
    \/ Crash

Spec == Init /\ [][Next]_vars

\* A second specification, of the cleanup stage alone: two payloads have
\* gone through ingest, validation and transfer and their cleanup messages
\* are queued.
TransferredBlob(p, b) ==
    LET admitted == AdmissionMetadata(MD5Hex(b), p[1], "MD5", 0)
        validated == ValidatedMetadata(admitted, TRUE, 0)
        s3Key == S3KeyFor(p, validated) IN
    Blob(b, TransferredMetadata(validated, s3Key, TrimQuotes(PutObjectETag(b)), 0), 0)

InitAudit ==
    /\ now = 0
    /\ drop = [f \in Files |-> NoFile]
    /\ blobs = [p \in Paths |-> TransferredBlob(p, "b1")]
    /\ qVisible = [q \in Queues |-> [p \in Paths |-> IF q = CleanupQueue THEN 1 ELSE 0]]
    /\ qInvisible = [q \in Queues |-> [p \in Paths |-> 0]]
    /\ s3 = [k \in S3Keys |-> "b1"]
    /\ audit = {}
    /\ fw = IdleWorker
    /\ vw = IdleWorker
    /\ tw = IdleWorker
    /\ cw = IdleWorker
    /\ admits = Cardinality(Paths)
    /\ faults = 0
    /\ everTransferred = Paths
    /\ landed = {[name |-> p, key |-> S3KeyFor(p, blobs[p].metadata), bytes |-> "b1"] : p \in Paths}
    /\ deletes = <<>>
    /\ RuntimeInit

NextAudit ==
    \/ Tick
    \/ \E p \in Paths : VisibilityTimeout(CleanupQueue, p)
    \/ ClDequeue \/ ClListBlobs \/ ClScanProperties \/ ClGetProperties
    \/ ClGenerateAuditCertificate \/ ClDelete
    \/ Crash

SpecAudit == InitAudit /\ [][NextAudit]_vars

\* A third specification, of the cleanup stage started from any content of
\* the cleanup queue: a transferred blob whose cleanup message may be lost,
\* and messages that name a blob which may be gone.  The worker's ticker
\* fires again and again, a started tick runs to its end, a hidden message
\* reappears when its timeout expires, and time passes.
InitRetention ==
    /\ now = 0
    /\ drop = [f \in Files |-> NoFile]
    /\ \E present \in (SUBSET Paths) \ {{}} :
          blobs = [p \in Paths |-> IF p \in present THEN TransferredBlob(p, "b1") ELSE NoBlob]
    /\ \E queued \in SUBSET Paths :
          qVisible = [q \in Queues |->
                         [p \in Paths |-> IF q = CleanupQueue /\ p \in queued THEN 1 ELSE 0]]
    /\ qInvisible = [q \in Queues |-> [p \in Paths |-> 0]]
    /\ s3 = [k \in S3Keys |-> "b1"]
    /\ audit = {}
    /\ fw = IdleWorker
    /\ vw = IdleWorker
    /\ tw = IdleWorker
    /\ cw = IdleWorker
    /\ admits = Cardinality(Paths)
    /\ faults = 0
    /\ everTransferred = Paths
    /\ landed = {[name |-> p, key |-> BuildObjectKey(p[1], p[2]), bytes |-> "b1"] : p \in Paths}
    /\ deletes = <<>>
    /\ RuntimeInit

CleanupTick == ClDequeue \/ ClListBlobs
CleanupStep == ClScanProperties \/ ClGetProperties \/ ClGenerateAuditCertificate \/ ClDelete

SpecRetention ==
    /\ InitRetention
    /\ [][NextAudit]_vars
    /\ WF_vars(Tick)
    /\ WF_vars(CleanupTick)
    /\ WF_vars(CleanupStep)
    /\ WF_vars(\E p \in Paths : VisibilityTimeout(CleanupQueue, p))

\* A fourth specification, of the transfer stage alone: validated payloads
\* and transfer messages, possibly several for one payload and possibly for
\* a payload that is gone.  The calls of a delivery may fail and the process
\* may crash, in any number of deliveries.
ValidatedBlob(p, b) ==
    Blob(b, ValidatedMetadata(AdmissionMetadata(MD5Hex(b), p[1], "MD5", 0), TRUE, 0), 0)

InitTransfer ==
    /\ now = 0
    /\ drop = [f \in Files |-> NoFile]
    /\ \E present \in (SUBSET Paths) \ {{}} :
          blobs = [p \in Paths |-> IF p \in present THEN ValidatedBlob(p, "b1") ELSE NoBlob]
    /\ \E n \in [Paths -> 0..2] :
          /\ \E p \in Paths : n[p] > 0
          /\ qVisible = [q \in Queues |->
                            [p \in Paths |-> IF q = TransferQueue THEN n[p] ELSE 0]]
    /\ qInvisible = [q \in Queues |-> [p \in Paths |-> 0]]
    /\ s3 = [k \in S3Keys |-> Nil]
    /\ audit = {}
    /\ fw = IdleWorker
    /\ vw = IdleWorker
    /\ tw = IdleWorker
    /\ cw = IdleWorker
    /\ admits = Cardinality(Paths)
    /\ faults = 0
    /\ everTransferred = {}
    /\ landed = {}
    /\ deletes = <<>>
    /\ RuntimeInit

\* the tick is over; the calls of a later tick may fail again
FaultsClear ==
    /\ tw.pc = "idle" /\ faults > 0
    /\ faults' = 0
    /\ UNCHANGED <<now, stores, fw, vw, tw, cw, admits, runtime, history>>

NextTransfer ==
    \/ Tick
    \/ \E p \in Paths : VisibilityTimeout(TransferQueue, p)
    \/ TrDequeue \/ TrGetBlobInfo \/ TrDownload \/ TrUploadObject \/ TrGetProperties
    \/ TrSetMetadata \/ TrDeleteMessage
    \/ Crash
    \/ FaultsClear

SpecTransfer == InitTransfer /\ [][NextTransfer]_vars

\* A fifth specification, of the validation stage alone: blobs written by a
\* producer with the checksum algorithm it names, and their validation
\* messages.  The worker's ticker fires again and again, a started tick runs
\* to its end and a hidden message reappears when its timeout expires.
Algorithms == {"MD5", "SHA256", "CRC32"}

\* the digest a producer computes with the algorithm it names
DigestOf(alg, b) ==
    CASE alg = "MD5" -> MD5Hex(b)
      [] alg = "SHA256" -> SHA256Hex(b)
      [] OTHER -> "c1"

InitValidation ==
    /\ now = 0
    /\ drop = [f \in Files |-> NoFile]
    /\ \E alg \in [Paths -> Algorithms], ok \in [Paths -> BOOLEAN] :
          blobs = [p \in Paths |->
                      Blob("b1", AdmissionMetadata(IF ok[p] THEN DigestOf(alg[p], "b1")
                                                           ELSE BadDigest,
                                                   p[1], alg[p], 0), 0)]
    /\ \E queued \in (SUBSET Paths) \ {{}} :
          qVisible = [q \in Queues |->
                         [p \in Paths |-> IF q = ValidationQueue /\ p \in queued THEN 1 ELSE 0]]
    /\ qInvisible = [q \in Queues |-> [p \in Paths |-> 0]]
    /\ s3 = [k \in S3Keys |-> Nil]
    /\ audit = {}
    /\ fw = IdleWorker
    /\ vw = IdleWorker
    /\ tw = IdleWorker
    /\ cw = IdleWorker
    /\ admits = Cardinality(Paths)
    /\ faults = 0
    /\ everTransferred = {}
    /\ landed = {}
    /\ deletes = <<>>
    /\ RuntimeInit

ValidationStep ==
    ValGetProperties \/ ValVerifyChecksum \/ ValSetMetadata \/ ValDeleteMessage

NextValidation ==
    \/ Tick
    \/ \E p \in Paths : VisibilityTimeout(ValidationQueue, p)
    \/ ValDequeue \/ ValGetProperties \/ ValVerifyChecksum \/ ValSetMetadata
    \/ ValDeleteMessage
    \/ Crash

SpecValidation ==
    /\ InitValidation
    /\ [][NextValidation]_vars
    /\ WF_vars(ValDequeue)
    /\ WF_vars(ValidationStep)
    /\ \A p \in Paths : WF_vars(VisibilityTimeout(ValidationQueue, p))

\* A sixth specification, of the three stages without the producers: one
\* admitted payload, with a right or a wrong digest, and one or two
\* validation messages for it.
StagePaths == {BlobNameOf(f) : f \in DropFiles}

InitStages ==
    /\ now = 0
    /\ drop = [f \in Files |-> NoFile]
    /\ \E ok \in [StagePaths -> BOOLEAN] :
          blobs = [p \in Paths |->
                      IF p \in StagePaths
                      THEN Blob("b1", AdmissionMetadata(IF ok[p] THEN MD5Hex("b1") ELSE BadDigest,
                                                        p[1], "MD5", 0), 0)
                      ELSE NoBlob]
    /\ \E n \in [StagePaths -> 1..2] :
          qVisible = [q \in Queues |->
                         [p \in Paths |-> IF q = ValidationQueue /\ p \in StagePaths
                                          THEN n[p] ELSE 0]]
    /\ qInvisible = [q \in Queues |-> [p \in Paths |-> 0]]
    /\ s3 = [k \in S3Keys |-> Nil]
    /\ audit = {}
    /\ fw = IdleWorker
    /\ vw = IdleWorker
    /\ tw = IdleWorker
    /\ cw = IdleWorker
    /\ admits = Cardinality(Paths)
    /\ faults = 0
    /\ everTransferred = {}
    /\ landed = {}
    /\ deletes = <<>>
    /\ RuntimeInit

NextStages ==
    \/ Tick
    \/ \E q \in Queues, p \in Paths : VisibilityTimeout(q, p)
    \/ ValDequeue \/ ValGetProperties \/ ValVerifyChecksum \/ ValSetMetadata \/ ValDeleteMessage
    \/ TrDequeue \/ TrGetBlobInfo \/ TrDownload \/ TrUploadObject \/ TrGetProperties
    \/ TrSetMetadata \/ TrDeleteMessage
    \/ ClDequeue \/ ClListBlobs \/ ClScanProperties \/ ClGetProperties
    \/ ClGenerateAuditCertificate \/ ClDelete
    \/ Crash

SpecStages == InitStages /\ [][NextStages]_vars

\* ------------------------------------------------------------------------
\* Worker runtime (Worker.Start, Stop, run, process)
\* ------------------------------------------------------------------------
\* len(status) >= 5 && status[:5] == "error"
HasErrorPrefix(st) == Len(st) >= 1 /\ st[1] = "error"

\* the results of one call of the processing function: nil or an error
Errors == {Nil, "failed"}

\* the process has not exited
Alive == sd.pc # "exited"

\* mutant: Start creates a fresh context
StartWithFreshContext ==
    /\ sd.pc = "off" /\ ctl.pc = "idle"
    /\ \E i \in 1..MaxStarts :
          /\ routines[i].pc = "none"
          /\ \A j \in 1..(i - 1) : routines[j].pc # "none"
          /\ routines' = [routines EXCEPT ![i] = [pc |-> "process", attempt |-> 0, err |-> Nil]]
    /\ status' = Running
    /\ cancelled' = FALSE
    /\ ctl' = [ctl EXCEPT !.last = "Start"]
    /\ UNCHANGED <<sd, srv, retryCount, call, pipeline>>

\* Start: status "running", wg.Add(1), go run(); run calls process at once
Start ==
    /\ sd.pc = "off" /\ ctl.pc = "idle"
    /\ \E i \in 1..MaxStarts :
          /\ routines[i].pc = "none"
          /\ \A j \in 1..(i - 1) : routines[j].pc # "none"
          /\ routines' = [routines EXCEPT ![i] = [pc |-> "process", attempt |-> 0, err |-> Nil]]
    /\ status' = Running
    /\ ctl' = [ctl EXCEPT !.last = "Start"]
    /\ UNCHANGED <<cancelled, sd, srv, retryCount, call, pipeline>>

\* Stop: cancel(), then wg.Wait()
Stop ==
    /\ ctl.pc = "idle"
    /\ sd.pc = "off" \/ (sd.pc = "stopWorkers" /\ ctl.last # "Stop")
    /\ cancelled' = TRUE
    /\ ctl' = [ctl EXCEPT !.pc = "wait"]
    /\ UNCHANGED <<status, routines, sd, srv, retryCount, call, pipeline>>

\* mutant: Stop does not wait for the goroutines
StopReturnsWithoutWait ==
    /\ ctl.pc = "wait"
    /\ status' = Stopped
    /\ ctl' = [pc |-> "idle", last |-> "Stop"]
    /\ UNCHANGED <<cancelled, routines, sd, srv, retryCount, call, pipeline>>

\* Stop: wg.Wait() has returned; status "stopped"
StopReturns ==
    /\ ctl.pc = "wait"
    /\ \A i \in 1..MaxStarts : routines[i].pc \in {"none", "done"}
    /\ status' = Stopped
    /\ ctl' = [pc |-> "idle", last |-> "Stop"]
    /\ UNCHANGED <<cancelled, routines, sd, srv, retryCount, call, pipeline>>

\* mutant: the loop head admits one attempt more
ProcessLoopOneMore(i) ==
    /\ Alive /\ routines[i].pc = "process"
    /\ routines' = [routines EXCEPT ![i].pc =
                        IF routines[i].attempt <= retryCount THEN "processFn" ELSE "select"]
    /\ UNCHANGED <<status, cancelled, ctl, sd, srv, retryCount, call, pipeline>>

\* process, loop head: attempt < retryCount
ProcessLoop(i) ==
    /\ Alive /\ routines[i].pc = "process"
    /\ routines' = [routines EXCEPT ![i].pc =
                        IF routines[i].attempt < retryCount THEN "processFn" ELSE "select"]
    /\ UNCHANGED <<status, cancelled, ctl, sd, srv, retryCount, call, pipeline>>

\* the call of processFn returns, with nil or with an error
ProcessFnReturns(i) ==
    /\ Alive /\ routines[i].pc = "processFn"
    /\ \E err \in Errors : routines' = [routines EXCEPT ![i].pc = "returned", ![i].err = err]
    /\ UNCHANGED <<status, cancelled, ctl, sd, srv, retryCount, call, pipeline>>

\* mutant: the goroutine ends when the last attempt has failed
ProcessReturnedTerminates(i) ==
    /\ Alive /\ routines[i].pc = "returned"
    /\ LET r == routines[i] IN
       IF r.err = Nil
       THEN /\ routines' = [routines EXCEPT ![i] = [pc |-> "select", attempt |-> 0, err |-> Nil]]
            /\ UNCHANGED status
       ELSE IF r.attempt = retryCount - 1
       THEN /\ status' = ErrorStatus(r.err)
            /\ routines' = [routines EXCEPT ![i] = [pc |-> "done", attempt |-> 0, err |-> Nil]]
       ELSE /\ routines' = [routines EXCEPT ![i].pc = "backoff"]
            /\ UNCHANGED status
    /\ UNCHANGED <<cancelled, ctl, sd, srv, retryCount, call, pipeline>>

\* mutant: a successful attempt sets the status back to running
ProcessReturnedRestoresRunning(i) ==
    /\ Alive /\ routines[i].pc = "returned"
    /\ LET r == routines[i] IN
       IF r.err = Nil
       THEN /\ routines' = [routines EXCEPT ![i] = [pc |-> "select", attempt |-> 0, err |-> Nil]]
            /\ status' = Running
       ELSE IF r.attempt = retryCount - 1
       THEN /\ status' = ErrorStatus(r.err)
            /\ routines' = [routines EXCEPT ![i] = [pc |-> "select", attempt |-> 0, err |-> Nil]]
       ELSE /\ routines' = [routines EXCEPT ![i].pc = "backoff"]
            /\ UNCHANGED status
    /\ UNCHANGED <<cancelled, ctl, sd, srv, retryCount, call, pipeline>>

\* process, after the call: success ends the tick; the last failed attempt
\* sets the error status and ends the tick; else back off
ProcessReturned(i) ==
    /\ Alive /\ routines[i].pc = "returned"
    /\ LET r == routines[i] IN
       IF r.err = Nil
       THEN /\ routines' = [routines EXCEPT ![i] = [pc |-> "select", attempt |-> 0, err |-> Nil]]
            /\ UNCHANGED status
       ELSE IF r.attempt = retryCount - 1
       THEN /\ status' = ErrorStatus(r.err)
            /\ routines' = [routines EXCEPT ![i] = [pc |-> "select", attempt |-> 0, err |-> Nil]]
       ELSE /\ routines' = [routines EXCEPT ![i].pc = "backoff"]
            /\ UNCHANGED status
    /\ UNCHANGED <<cancelled, ctl, sd, srv, retryCount, call, pipeline>>

\* time.Sleep(backoff) is over: next attempt
Backoff(i) ==
    /\ Alive /\ routines[i].pc = "backoff"
    /\ routines' = [routines EXCEPT ![i] = [pc |-> "process", attempt |-> @.attempt + 1,
                                            err |-> Nil]]
    /\ UNCHANGED <<status, cancelled, ctl, sd, srv, retryCount, call, pipeline>>

\* run, select: case <-ticker.C
TickerFires(i) ==
    /\ Alive /\ routines[i].pc = "select"
    /\ routines' = [routines EXCEPT ![i] = [pc |-> "process", attempt |-> 0, err |-> Nil]]
    /\ UNCHANGED <<status, cancelled, ctl, sd, srv, retryCount, call, pipeline>>

\* run, select: case <-w.ctx.Done(); wg.Done()
ContextDone(i) ==
    /\ Alive /\ routines[i].pc = "select" /\ cancelled
    /\ routines' = [routines EXCEPT ![i].pc = "done"]
    /\ UNCHANGED <<status, cancelled, ctl, sd, srv, retryCount, call, pipeline>>

\* a step of goroutine i other than the return of the processing function
RoutineStep(i) ==
    ProcessLoop(i) \/ ProcessReturned(i) \/ Backoff(i) \/ TickerFires(i) \/ ContextDone(i)

NextWorker ==
    \/ Start \/ Stop \/ StopReturns
    \/ \E i \in 1..MaxStarts :
          \/ ProcessLoop(i) \/ ProcessFnReturns(i) \/ ProcessReturned(i)
          \/ Backoff(i) \/ TickerFires(i) \/ ContextDone(i)

\* one worker under any sequence of Start and Stop calls; the goroutines are
\* scheduled, the ticker fires and the processing function returns
SpecWorker ==
    /\ Init
    /\ [][NextWorker]_vars
    /\ \A i \in 1..MaxStarts : WF_vars(RoutineStep(i)) /\ WF_vars(ProcessFnReturns(i))

\* the same worker, where a select whose context is done does not take the
\* ticker case for ever (the runtime picks among the ready cases at random)
SpecRestart ==
    /\ Init
    /\ [][NextWorker]_vars
    /\ \A i \in 1..MaxStarts :
          WF_vars(RoutineStep(i)) /\ WF_vars(ProcessFnReturns(i)) /\ SF_vars(ContextDone(i))

\* NewWorker with any configured retry count: OPERATION_RETRY_COUNT is taken
\* as it is
InitRetry ==
    /\ PipelineInit
    /\ status = Stopped
    /\ cancelled = FALSE
    /\ routines = [i \in 1..MaxStarts |-> NoRoutine]
    /\ ctl = [pc |-> "idle", last |-> "none"]
    /\ sd = [pc |-> "off", deadline |-> FALSE]
    /\ srv = NoServer
    /\ retryCount \in 0..RetryCount
    /\ call = NoCall

\* one worker, for every configured retry count
SpecRetry == InitRetry /\ [][NextWorker]_vars

\* ------------------------------------------------------------------------
\* The transfer worker on the worker runtime: processFn is
\* processTransferQueue
\* ------------------------------------------------------------------------
\* processTransferQueue up to its loop: DequeueMessages fails (the error is
\* returned), returns no message (nil is returned), or returns a batch
TransferDequeue(i) ==
    /\ routines[i].pc = "processFn" /\ tw.pc = "idle"
    /\ \/ /\ CanFail
          /\ faults' = faults + 1
          /\ routines' = [routines EXCEPT ![i].pc = "returned", ![i].err = "failed"]
          /\ UNCHANGED <<qVisible, qInvisible, tw>>
       \/ /\ \A p \in Paths : qVisible[TransferQueue][p] = 0
          /\ routines' = [routines EXCEPT ![i].pc = "returned", ![i].err = Nil]
          /\ UNCHANGED <<qVisible, qInvisible, tw, faults>>
       \/ \E s \in DequeueBatches(TransferQueue, BatchSize) :
             /\ s # <<>>
             /\ Hidden(TransferQueue, s)
             /\ tw' = [pc |-> "getBlobInfo", batch |-> s]
             /\ routines' = [routines EXCEPT ![i].pc = "inLoop"]
             /\ UNCHANGED faults
    /\ UNCHANGED <<now, drop, blobs, s3, audit, fw, vw, cw, admits, history,
                   status, cancelled, ctl, sd, srv, retryCount, call>>

\* the loop over the messages is over: return nil, whatever happened to the
\* items
TransferReturns(i) ==
    /\ routines[i].pc = "inLoop" /\ tw.pc = "idle"
    /\ routines' = [routines EXCEPT ![i].pc = "returned", ![i].err = Nil]
    /\ UNCHANGED <<status, cancelled, ctl, sd, srv, retryCount, call, pipeline>>

\* the steps of processTransferQueue on one message
TransferItemStep ==
    \/ TrGetBlobInfo \/ TrDownload \/ TrUploadObject \/ TrGetProperties
    \/ TrSetMetadata \/ TrDeleteMessage

\* main has started the transfer worker; transfer messages are queued, for
\* validated payloads and for payloads that are gone
InitTransferWorker ==
    /\ now = 0
    /\ drop = [f \in Files |-> NoFile]
    /\ \E present \in SUBSET Paths :
          blobs = [p \in Paths |-> IF p \in present THEN ValidatedBlob(p, "b1") ELSE NoBlob]
    /\ \E queued \in (SUBSET Paths) \ {{}} :
          qVisible = [q \in Queues |->
                         [p \in Paths |-> IF q = TransferQueue /\ p \in queued THEN 1 ELSE 0]]
    /\ qInvisible = [q \in Queues |-> [p \in Paths |-> 0]]
    /\ s3 = [k \in S3Keys |-> Nil]
    /\ audit = {}
    /\ fw = IdleWorker
    /\ vw = IdleWorker
    /\ tw = IdleWorker
    /\ cw = IdleWorker
    /\ admits = Cardinality(Paths)
    /\ faults = 0
    /\ everTransferred = {}
    /\ landed = {}
    /\ deletes = <<>>
    /\ status = Running
    /\ cancelled = FALSE
    /\ routines = [i \in 1..MaxStarts |->
                     IF i = 1 THEN [pc |-> "process", attempt |-> 0, err |-> Nil]
                              ELSE NoRoutine]
    /\ ctl = [pc |-> "idle", last |-> "Start"]
    /\ sd = [pc |-> "off", deadline |-> FALSE]
    /\ srv = NoServer
    /\ retryCount = RetryCount
    /\ call = NoCall

NextTransferWorker ==
    \/ \E p \in Paths : VisibilityTimeout(TransferQueue, p)
    \/ TrGetBlobInfo \/ TrDownload \/ TrUploadObject \/ TrGetProperties
    \/ TrSetMetadata \/ TrDeleteMessage
    \/ \E i \in 1..MaxStarts :
          \/ ProcessLoop(i) \/ TransferDequeue(i) \/ TransferReturns(i)
          \/ ProcessReturned(i) \/ Backoff(i) \/ TickerFires(i)

\* the goroutine is scheduled, the ticker fires again and again, every call
\* returns and a hidden message reappears when its timeout expires
SpecTransferWorker ==
    /\ InitTransferWorker
    /\ [][NextTransferWorker]_vars
    /\ WF_vars(TransferItemStep)
    /\ \A p \in Paths : WF_vars(VisibilityTimeout(TransferQueue, p))
    /\ \A i \in 1..MaxStarts :
          /\ WF_vars(ProcessLoop(i) \/ ProcessReturned(i) \/ Backoff(i) \/ TickerFires(i))
          /\ WF_vars(TransferDequeue(i)) /\ WF_vars(TransferReturns(i))

\* ------------------------------------------------------------------------
\* Graceful shutdown (handleGracefulShutdown)
\* ------------------------------------------------------------------------
\* sig := <-sigChan; shutdownCtx is created with the timeout
Signal ==
    /\ sd.pc = "waitSignal"
    /\ sd' = [sd EXCEPT !.pc = "stopWorkers"]
    /\ UNCHANGED <<status, cancelled, routines, ctl, srv, retryCount, call, pipeline>>

\* ShutdownTimeout has passed since shutdownCtx was created
DeadlineExceeded ==
    /\ sd.pc \in {"stopWorkers", "srvShutdown", "select"}
    /\ ~sd.deadline
    /\ sd' = [sd EXCEPT !.deadline = TRUE]
    /\ UNCHANGED <<status, cancelled, routines, ctl, srv, retryCount, call, pipeline>>

\* the loop over the tasks is over: every task.stop() has returned
WorkersStopped ==
    /\ sd.pc = "stopWorkers"
    /\ ctl.pc = "idle" /\ ctl.last = "Stop"
    /\ sd' = [sd EXCEPT !.pc = "srvShutdown"]
    /\ UNCHANGED <<status, cancelled, routines, ctl, srv, retryCount, call, pipeline>>

\* srv.Shutdown(shutdownCtx) returns, gracefully or with the context's error
ServerShutdown ==
    /\ sd.pc = "srvShutdown"
    /\ sd' = [sd EXCEPT !.pc = "select"]
    /\ UNCHANGED <<status, cancelled, routines, ctl, srv, retryCount, call, pipeline>>

\* the final select takes one of its cases; handleGracefulShutdown and main
\* return
Exit ==
    /\ sd.pc = "select"
    /\ sd' = [sd EXCEPT !.pc = "exited"]
    /\ UNCHANGED <<status, cancelled, routines, ctl, srv, retryCount, call, pipeline>>

\* main has started the worker once and waits for the signal
InitShutdown ==
    /\ PipelineInit
    /\ status = Running
    /\ cancelled = FALSE
    /\ routines = [i \in 1..MaxStarts |->
                     IF i = 1 THEN [pc |-> "process", attempt |-> 0, err |-> Nil]
                              ELSE NoRoutine]
    /\ ctl = [pc |-> "idle", last |-> "Start"]
    /\ sd = [pc |-> "waitSignal", deadline |-> FALSE]
    /\ srv = NoServer
    /\ retryCount = RetryCount
    /\ call = NoCall

\* the steps main takes on its own once the signal has arrived
ShutdownStep ==
    Stop \/ StopReturns \/ WorkersStopped \/ ServerShutdown \/ Exit

NextShutdown ==
    \/ Signal \/ DeadlineExceeded
    \/ Stop \/ StopReturns \/ WorkersStopped \/ ServerShutdown \/ Exit
    \/ \E i \in 1..MaxStarts :
          \/ ProcessLoop(i) \/ ProcessFnReturns(i) \/ ProcessReturned(i)
          \/ Backoff(i) \/ TickerFires(i) \/ ContextDone(i)

\* the running process receives a signal; main and the goroutines are
\* scheduled, the deadline passes and a select that finds the context done
\* again and again takes that case, but a call of the processing function
\* need not return
SpecShutdown ==
    /\ InitShutdown
    /\ [][NextShutdown]_vars
    /\ WF_vars(ShutdownStep)
    /\ WF_vars(DeadlineExceeded)
    /\ \A i \in 1..MaxStarts : WF_vars(RoutineStep(i)) /\ SF_vars(ContextDone(i))

\* ------------------------------------------------------------------------
\* Health endpoint (RegisterWorkerStatusEndpoints, healthHandler)
\* ------------------------------------------------------------------------
\* what Worker.Status can return
StatusValues == {Running, Stopped, ErrorStatus("failed")}

\* the argument lists of RegisterWorkerStatusEndpoints, each worker given by
\* the status it reports
WorkerLists == UNION {[1..n -> StatusValues] : n \in 0..MaxWorkers}

\* workers[4:]: the positions from the fifth on
AdditionalOf(n) == [k \in 1..(n - 4) |-> k + 4]

\* RegisterWorkerStatusEndpoints on the trackers g with n workers; a tracker
\* holds the position of its worker in the argument list
RegisterWorkerStatusEndpoints(g, n) ==
    IF n >= 3
    THEN [g EXCEPT !.validationWorker = 1,
                   !.transferWorker = 2,
                   !.cleanupWorker = 3,
                   !.ftpWorker = IF n >= 4 THEN 4 ELSE g.ftpWorker,
                   !.additionalWorkers = IF n > 4 THEN AdditionalOf(n) ELSE <<>>]
    ELSE [g EXCEPT !.validationWorker = IF n >= 1 THEN 1 ELSE g.validationWorker,
                   !.transferWorker = IF n >= 2 THEN 2 ELSE g.transferWorker,
                   !.additionalWorkers = <<>>]

\* healthHandler: the status code written
healthHandler(g) ==
    LET inspected ==
            IF /\ g.validationWorker # NoWorker /\ g.transferWorker # NoWorker
               /\ g.cleanupWorker # NoWorker
            THEN <<g.validationWorker, g.transferWorker, g.cleanupWorker>>
                 \o (IF g.ftpWorker # NoWorker THEN <<g.ftpWorker>> ELSE <<>>)
                 \o g.additionalWorkers
            ELSE <<>>
        isHealthy ==
            \A k \in DOMAIN inspected : ~HasErrorPrefix(g.workers[inspected[k]])
    IN  IF isHealthy THEN 200 ELSE 503

\* main registers the workers with the server, once
Register ==
    /\ ~srv.registered
    /\ \E ws \in WorkerLists :
          srv' = [RegisterWorkerStatusEndpoints(srv, Len(ws))
                     EXCEPT !.registered = TRUE, !.workers = ws]
    /\ UNCHANGED <<status, cancelled, routines, ctl, sd, retryCount, call, pipeline>>

\* GET /health is served
HealthRequest ==
    /\ srv.registered
    /\ srv' = [srv EXCEPT !.response = healthHandler(srv)]
    /\ UNCHANGED <<status, cancelled, routines, ctl, sd, retryCount, call, pipeline>>

NextHealth == Register \/ HealthRequest

\* any list of workers is registered, then health requests are served
SpecHealth == Init /\ [][NextHealth]_vars

\* ------------------------------------------------------------------------
\* Queue names
\* ------------------------------------------------------------------------
\* A queue name is kept as its pieces: each of the words "validation",
\* "transfer" and "cleanup" is a piece of its own, the text between them is
\* the other pieces.
defaultValidationQueueName == <<"validation", "-queue">>
defaultTransferQueueName == <<"transfer", "-queue">>
defaultCleanupQueueName == <<"cleanup", "-queue">>

\* values of VALIDATION_QUEUE_NAME, TRANSFER_QUEUE_NAME, CLEANUP_QUEUE_NAME
QueueNames ==
    {defaultValidationQueueName, defaultTransferQueueName, defaultCleanupQueueName,
     <<"usv-", "validation">>, <<"usv-", "transfer">>, <<"usv-", "cleanup">>,
     <<"jobs">>}

\* strings.Replace(s, old, new, 1)
Replace(s, old, new) ==
    IF \E i \in 1..Len(s) : s[i] = old
    THEN LET i == CHOOSE k \in 1..Len(s) :
                      s[k] = old /\ \A j \in 1..(k - 1) : s[j] # old
         IN [s EXCEPT ![i] = new]
    ELSE s

\* the queue the validation worker enqueues transfer messages on
transferQueueName(queueName) ==
    IF queueName # defaultValidationQueueName
    THEN Replace(queueName, "validation", "transfer")
    ELSE defaultTransferQueueName

\* the queue the transfer worker enqueues cleanup messages on
cleanupQueueName(queueName) ==
    IF queueName # defaultTransferQueueName
    THEN Replace(queueName, "transfer", "cleanup")
    ELSE defaultCleanupQueueName

\* config.Load and the three worker constructors: each worker keeps the
\* configured name of its input queue (three different queues); nothing is
\* enqueued yet
InitQueueNames ==
    /\ PipelineInit
    /\ status = Stopped
    /\ cancelled = FALSE
    /\ routines = [i \in 1..MaxStarts |-> NoRoutine]
    /\ ctl = [pc |-> "idle", last |-> "none"]
    /\ sd = [pc |-> "off", deadline |-> FALSE]
    /\ srv = NoServer
    /\ retryCount = RetryCount
    /\ \E v \in QueueNames, t \in QueueNames, c \in QueueNames :
          /\ v # t /\ t # c /\ v # c
          /\ call = [fn |-> "queues",
                     vwQueueName |-> v, twQueueName |-> t, cwQueueName |-> c,
                     transferTo |-> <<>>, cleanupTo |-> <<>>]

\* the validation worker enqueues a transfer message
QueueTransferTaskInternal ==
    /\ call.fn = "queues"
    /\ call' = [call EXCEPT !.transferTo = transferQueueName(call.vwQueueName)]
    /\ UNCHANGED <<status, cancelled, routines, ctl, sd, srv, retryCount, pipeline>>

\* the transfer worker enqueues a cleanup message
QueueCleanupTaskInternal ==
    /\ call.fn = "queues"
    /\ call' = [call EXCEPT !.cleanupTo = cleanupQueueName(call.twQueueName)]
    /\ UNCHANGED <<status, cancelled, routines, ctl, sd, srv, retryCount, pipeline>>

NextQueueNames == QueueTransferTaskInternal \/ QueueCleanupTaskInternal

SpecQueueNames == InitQueueNames /\ [][NextQueueNames]_vars

\* ------------------------------------------------------------------------
\* Metadata keys as the store returns them
\* ------------------------------------------------------------------------
\* the keys as the ingest, validation and transfer stages write them
WrittenKeys ==
    {"checksum", "checksumAlgorithm", "vesselid", "validationstatus",
     "transferstatus", "s3destination"}

\* letter case in which a store hands the keys back: as written, all lower
\* case, first letter capital (canonical header form), all upper case
CaseStyles == {"written", "lower", "canonical", "upper"}

Cased(style, k) ==
    CASE style = "written" -> k
      [] style = "lower" ->
           (CASE k = "checksumAlgorithm" -> "checksumalgorithm" [] OTHER -> k)
      [] style = "canonical" ->
           (CASE k = "checksum" -> "Checksum"
              [] k = "checksumAlgorithm" -> "Checksumalgorithm"
              [] k = "vesselid" -> "Vesselid"
              [] k = "validationstatus" -> "Validationstatus"
              [] k = "transferstatus" -> "Transferstatus"
              [] k = "s3destination" -> "S3destination")
      [] style = "upper" ->
           (CASE k = "checksum" -> "CHECKSUM"
              [] k = "checksumAlgorithm" -> "CHECKSUMALGORITHM"
              [] k = "vesselid" -> "VESSELID"
              [] k = "validationstatus" -> "VALIDATIONSTATUS"
              [] k = "transferstatus" -> "TRANSFERSTATUS"
              [] k = "s3destination" -> "S3DESTINATION")

\* strings.EqualFold on keys: k is some casing of the written key w
KeyEqualFold(k, w) == \E style \in CaseStyles : Cased(style, w) = k

\* props.Metadata of a blob whose attributes are attrs, in the given casing
ReturnedMetadata(style, attrs) ==
    [k \in {Cased(style, w) : w \in WrittenKeys} |->
        attrs[CHOOSE w \in WrittenKeys : Cased(style, w) = k]]

\* the value a key lookup reports as missing
Missing == "<missing>"

\* ValidateBlob: the checksum under "checksum", "Checksum" or "CheckSum"
\* (else the error "checksum not found"), the algorithm under
\* "checksumAlgorithm" or "ChecksumAlgorithm" (else the default)
ValidateBlobChecksum(md) ==
    IF "checksum" \in DOMAIN md THEN md["checksum"]
    ELSE IF "Checksum" \in DOMAIN md THEN md["Checksum"]
    ELSE IF "CheckSum" \in DOMAIN md THEN md["CheckSum"]
    ELSE Missing

ValidateBlobAlgorithm(md) ==
    IF "checksumAlgorithm" \in DOMAIN md THEN md["checksumAlgorithm"]
    ELSE IF "ChecksumAlgorithm" \in DOMAIN md THEN md["ChecksumAlgorithm"]
    ELSE "SHA256"

\* TransferValidatedBlob: the first key that EqualFold matches, else ""
FoldLookup(md, w) ==
    IF \E k \in DOMAIN md : KeyEqualFold(k, w)
    THEN md[CHOOSE k \in DOMAIN md : KeyEqualFold(k, w)]
    ELSE ""

\* cleanupBlob: props.Metadata[key], a nil pointer read as the given default
ExactLookup(md, w, default) == IF w \in DOMAIN md THEN md[w] ELSE default

\* a blob that went through ingest, validation and transfer, and the casing
\* in which the store returns its metadata keys; no stage has read it yet
InitMetadataKeys ==
    /\ PipelineInit
    /\ status = Stopped
    /\ cancelled = FALSE
    /\ routines = [i \in 1..MaxStarts |-> NoRoutine]
    /\ ctl = [pc |-> "idle", last |-> "none"]
    /\ sd = [pc |-> "off", deadline |-> FALSE]
    /\ srv = NoServer
    /\ retryCount = RetryCount
    /\ \E style \in CaseStyles, b \in Bytes, alg \in {"MD5", "SHA256"},
          vs \in {"valid", "invalid"} :
          call = [fn |-> "metadata",
                  attrs |-> [checksum |-> DigestOf(alg, b),
                             checksumAlgorithm |-> alg,
                             vesselid |-> "unknown",
                             validationstatus |-> vs,
                             transferstatus |-> "transferred",
                             s3destination |-> "dest"],
                  style |-> style,
                  read |-> <<>>]

\* a stage reads the metadata the store returned
Reads(stage, found) ==
    /\ call.fn = "metadata"
    /\ call.read = <<>>
    /\ call' = [call EXCEPT !.read = <<stage, found>>]
    /\ UNCHANGED <<status, cancelled, routines, ctl, sd, srv, retryCount, pipeline>>

\* ValidateBlob reads the checksum and the algorithm
ValidateReads ==
    LET md == ReturnedMetadata(call.style, call.attrs) IN
    Reads("validate", [checksum |-> ValidateBlobChecksum(md),
                       checksumAlgorithm |-> ValidateBlobAlgorithm(md)])

\* TransferValidatedBlob reads the validation status and the vessel id
TransferReads ==
    LET md == ReturnedMetadata(call.style, call.attrs) IN
    Reads("transfer", [validationstatus |-> FoldLookup(md, "validationstatus"),
                       vesselid |-> FoldLookup(md, "vesselid")])

\* cleanupBlob reads the transfer status and the remote destination
CleanupReads ==
    LET md == ReturnedMetadata(call.style, call.attrs) IN
    Reads("cleanup", [transferstatus |-> ExactLookup(md, "transferstatus", ""),
                      s3destination |-> ExactLookup(md, "s3destination", "unknown")])

NextMetadataKeys == ValidateReads \/ TransferReads \/ CleanupReads

SpecMetadataKeys == InitMetadataKeys /\ [][NextMetadataKeys]_vars

\* ------------------------------------------------------------------------
\* Ingest and validation of digests written in either letter case
\* ------------------------------------------------------------------------
\* a right digest as a tool prints it: lowercase or uppercase hex digits
HexCases(d) == {d, ToUpper(d)}

\* the producers offer payloads with a right digest in either case; the
\* ingest and the validation worker run
NextDigestCase ==
    \/ \E f \in DropFiles, b \in Offered : \E h \in HexCases(MD5Hex(b)) : Deposit(f, b, h)
    \/ \E f \in DropFiles, b \in Offered : \E c \in HexCases(SHA256Hex(b)) :
          UploadFile(BlobNameOf(f), b, c)
    \/ \E p \in Paths : VisibilityTimeout(ValidationQueue, p)
    \/ FtpList \/ FtpRetr \/ FtpUploadBuffer \/ FtpEnqueue
    \/ ValDequeue \/ ValGetProperties \/ ValVerifyChecksum \/ ValSetMetadata \/ ValDeleteMessage
    \/ Crash

SpecDigestCase == Init /\ [][NextDigestCase]_vars

\* ------------------------------------------------------------------------
\* Vessel id extraction, on file names kept as their characters
\* ------------------------------------------------------------------------
EKIMarker == <<"-", "E", "K", "I">>
VESSELMarker == <<"V", "E", "S", "S", "E", "L">>
Digits == {"0", "2", "7"}

\* position of the first occurrence of sep in s, 0 when there is none
Index(s, sep) ==
    LET at == {i \in 1..(Len(s) - Len(sep) + 1) : SubSeq(s, i, i + Len(sep) - 1) = sep}
    IN IF at = {} THEN 0 ELSE CHOOSE i \in at : \A j \in at : i <= j

\* strings.Split(s, sep)[0]
SplitFirst(s, sep) ==
    IF Index(s, sep) = 0 THEN s ELSE SubSeq(s, 1, Index(s, sep) - 1)

\* strings.Split(s, sep)[1], for an s in which sep occurs
SplitSecond(s, sep) ==
    SplitFirst(SubSeq(s, Index(s, sep) + Len(sep), Len(s)), sep)

\* the vessel id processFTPFiles derives from dataFileName
VesselIDFromName(dataFileName) ==
    IF Index(dataFileName, EKIMarker) > 0
    THEN <<"E", "K", "I">> \o SplitFirst(SplitSecond(dataFileName, EKIMarker), <<".">>)
    ELSE IF Index(dataFileName, VESSELMarker) > 0
    THEN VESSELMarker \o SplitFirst(SplitSecond(dataFileName, VESSELMarker), <<"_">>)
    ELSE <<"u", "n", "k", "n", "o", "w", "n">>

\* file names of the drop: a prefix, a marker or none, a token, a
\* terminator or none, an extension or none; and three full names
DataFileNames ==
    {pre \o mark \o tok \o term \o ext :
        pre \in {<<>>, <<"a">>},
        mark \in {EKIMarker, VESSELMarker, <<>>},
        tok \in {<<"7">>, <<"0", "7">>, <<"x">>},
        term \in {<<".">>, <<"_">>, <<>>},
        ext \in {<<"b">>, <<>>}}
    \cup {<<"s", "o", "m", "e", "t", "h", "i", "n", "g", "-", "E", "K", "I",
            "0", "0", "0", "7", ".", "b", "i", "n">>,
          <<"V", "E", "S", "S", "E", "L", "0", "0", "2", "_", "l", "o", "g",
            ".", "b", "i", "n">>,
          <<"r", "a", "n", "d", "o", "m", ".", "b", "i", "n">>}

\* a data file of the drop has been downloaded and verified; its vessel id
\* is not derived yet
InitVesselID ==
    /\ PipelineInit
    /\ status = Stopped
    /\ cancelled = FALSE
    /\ routines = [i \in 1..MaxStarts |-> NoRoutine]
    /\ ctl = [pc |-> "idle", last |-> "none"]
    /\ sd = [pc |-> "off", deadline |-> FALSE]
    /\ srv = NoServer
    /\ retryCount = RetryCount
    /\ \E n \in DataFileNames :
          call = [fn |-> "vesselID", dataFileName |-> n, vesselID |-> <<>>]

\* "Extract vessel ID"
ExtractVessel ==
    /\ call.fn = "vesselID"
    /\ call.vesselID = <<>>
    /\ call' = [call EXCEPT !.vesselID = VesselIDFromName(call.dataFileName)]
    /\ UNCHANGED <<status, cancelled, routines, ctl, sd, srv, retryCount, pipeline>>

SpecVesselID == InitVesselID /\ [][ExtractVessel]_vars

\* ------------------------------------------------------------------------
\* Remote keys of blob names with any number of path segments
\* ------------------------------------------------------------------------
\* blob names a validation message can carry: "<segment>/<file>" as the
\* ingest and the uploader write them, and names with a directory between
\* the first segment and the file
BlobNames ==
    {<<v, f>> : v \in {"V1", "V2"}, f \in {"x", "y"}}
    \cup {<<v, d, f>> : v \in {"V1", "V2"}, d \in {"a", "b"}, f \in {"x", "y"}}

\* the vesselid metadata of a blob: absent, or a vessel id
VesselIDs == {"", "V1", "V2"}

\* two different blobs have been validated; no key is built yet
InitKeys ==
    /\ PipelineInit
    /\ status = Stopped
    /\ cancelled = FALSE
    /\ routines = [i \in 1..MaxStarts |-> NoRoutine]
    /\ ctl = [pc |-> "idle", last |-> "none"]
    /\ sd = [pc |-> "off", deadline |-> FALSE]
    /\ srv = NoServer
    /\ retryCount = RetryCount
    /\ \E n1 \in BlobNames, n2 \in BlobNames, v1 \in VesselIDs, v2 \in VesselIDs :
          /\ n1 # n2
          /\ call = [fn |-> "key", blobName |-> <<n1, n2>>, vesselid |-> <<v1, v2>>,
                     s3Key |-> <<NoDest, NoDest>>]

\* TransferValidatedBlob builds the key of one of the two blobs
BuildKey(i) ==
    /\ call.fn = "key"
    /\ call.s3Key[i] = NoDest
    /\ call' = [call EXCEPT !.s3Key[i] =
                   S3KeyFor(call.blobName[i], [vesselid |-> call.vesselid[i]])]
    /\ UNCHANGED <<status, cancelled, routines, ctl, sd, srv, retryCount, pipeline>>

NextKeys == \E i \in 1..2 : BuildKey(i)

SpecKeys == InitKeys /\ [][NextKeys]_vars

\* ------------------------------------------------------------------------
\* Properties
\* ------------------------------------------------------------------------
Transferred(p) == blobs[p].exists /\ blobs[p].metadata.transferstatus = "transferred"
Valid(p) == blobs[p].exists /\ blobs[p].metadata.validationstatus = "valid"
Invalid(p) == blobs[p].exists /\ blobs[p].metadata.validationstatus = "invalid"

\* the stage attributes of a blob
StageAttributes(blob) ==
    <<blob.metadata.validationstatus, blob.metadata.transferstatus, blob.metadata.s3destination>>

\* C1: no premature deletion -- every blob delete performed by cleanup, on
\* the queue path or the scan path, was preceded by a transfer that set
\* transferstatus=transferred on that blob name.
C1_NoPrematureDeletion ==
    \A i \in DOMAIN deletes : deletes[i].name \in everTransferred

C1_Witness ==
    \E i \in DOMAIN deletes : deletes[i].name \in everTransferred

\* C2: at the instant cleanup issues the delete of P, the object stored at P
\* carries transferstatus=transferred, whatever the other workers wrote
\* between cleanup's GetProperties and its Delete.
C2_DeletedObjectIsTransferred ==
    \A i \in DOMAIN deletes : deletes[i].transferstatus = "transferred"

\* C3: the bytes cleanup removes from P were uploaded to the remote store
\* for P and observed present there before the delete.
C3_DeletedBytesLanded ==
    \A i \in DOMAIN deletes :
        \E l \in landed : l.name = deletes[i].name /\ l.bytes = deletes[i].bytes

\* C4: a blob is deleted only by the cleanup attempt that has just written
\* its certificate; when the certificate write fails, the blob is not
\* deleted, the cleanup message is not acknowledged and the attempt does not
\* go on to the delete.
C4_CertificateBeforeDelete ==
    [][ /\ \A p \in Paths :
             (blobs[p].exists /\ ~blobs'[p].exists) =>
                 /\ cw.pc = "delete"
                 /\ Head(cw.batch).name = p
                 /\ \E r \in audit : r.BlobName = p /\ r.DeletionTime <= now
        /\ (cw.pc = "certificate" /\ cw' # cw /\ faults' # faults) =>
                 /\ blobs' = blobs
                 /\ qVisible' = qVisible /\ qInvisible' = qInvisible
                 /\ cw'.pc # "delete" ]_vars

C4_Witness ==
    /\ cw.pc = "delete"
    /\ \E r \in audit : r.BlobName = Head(cw.batch).name

\* C5: certificate completeness -- in every reachable state the audit
\* directory holds at least as many certificates as cleanup has deleted
\* blobs, and every delete has a stored certificate that references the
\* name of the deleted blob.
C5_CertificateCompleteness ==
    /\ Cardinality(audit) >= Len(deletes)
    /\ \A i \in DOMAIN deletes : \E r \in audit : r.BlobName = deletes[i].name

\* the blob at p is past its retention window
Expired(p) == blobs[p].exists /\ now - blobs[p].lastModified > RetentionPeriod

\* no cleanup message names p
CleanupMessageLost(p) == qVisible[CleanupQueue][p] = 0 /\ qInvisible[CleanupQueue][p] = 0

\* C11: retention fallback -- a transferred blob that is past its retention
\* window and has no cleanup message is eventually deleted by the cleanup
\* worker, whatever the cleanup queue holds.
C11_RetentionFallback ==
    \A p \in Paths :
        (Transferred(p) /\ Expired(p) /\ CleanupMessageLost(p)) ~> ~blobs[p].exists

\* C12: cleanup deletes a blob only after its retention window has elapsed:
\* at every delete of P, now - lastModified(P) exceeds the retention period.
C12_DeleteAfterRetention ==
    [][ \A p \in Paths :
          (blobs[p].exists /\ ~blobs'[p].exists) =>
              now - blobs[p].lastModified > RetentionPeriod ]_vars

\* C6: every blob whose metadata says transferstatus=transferred also says
\* validationstatus=valid.
C6_TransferredImpliesValid ==
    \A p \in Paths : Transferred(p) => Valid(p)

\* the digest of the stored bytes under the stored algorithm equals the
\* stored checksum, compared case-insensitively
StoredDigestMatches(blob) ==
    LET alg == IF blob.metadata.checksumAlgorithm # Nil
               THEN blob.metadata.checksumAlgorithm ELSE "SHA256"
        calculated == IF ToUpper(alg) = "MD5" THEN MD5Hex(blob.bytes) ELSE SHA256Hex(blob.bytes) IN
    /\ ToUpper(alg) \in {"MD5", "SHA256"}
    /\ ToLower(calculated) = ToLower(blob.metadata.checksum)

\* C7: validation truthfulness -- when validation writes
\* validationstatus=valid on P, the blob then stored at P has bytes whose
\* digest under its stored algorithm equals its stored checksum.
C7_ValidationTruthfulness ==
    [][ \A p \in Paths :
          ( /\ vw.pc = "setMetadata" /\ vw' # vw /\ Head(vw.batch) = p
            /\ blobs'[p] # blobs[p] /\ blobs'[p].exists
            /\ blobs'[p].metadata.validationstatus = "valid" )
          => StoredDigestMatches(blobs'[p]) ]_vars

\* C8: transfer faithfulness -- when transfer writes
\* transferstatus=transferred with s3destination=D on P, bytes downloaded
\* from P have been put to D and D has been observed present.
C8_TransferFaithfulness ==
    [][ \A p \in Paths :
          ( /\ tw.pc = "setMetadata" /\ tw' # tw /\ Head(tw.batch) = p
            /\ blobs'[p] # blobs[p] /\ blobs'[p].exists
            /\ blobs'[p].metadata.transferstatus = "transferred" )
          => \E l \in landed :
                /\ l.name = p
                /\ <<BucketName>> \o l.key = blobs'[p].metadata.s3destination
                /\ s3[l.key] # Nil ]_vars

C8_Witness ==
    \E p \in Paths :
        /\ Transferred(p)
        /\ \E l \in landed : l.name = p /\ <<BucketName>> \o l.key = blobs[p].metadata.s3destination

\* C13: an invalid payload is terminal -- the validation that records
\* validationstatus=invalid enqueues no transfer message, and while the blob
\* at P is recorded invalid with bytes that do not match its stored checksum
\* its bytes are not uploaded, it is not deleted and no certificate is
\* written for it.
C13_InvalidIsTerminal ==
    [][ \A p \in Paths :
          /\ (vw.pc = "deleteMessage" /\ vw' # vw /\ Head(vw.batch) = p /\ ~vw.isValid)
                => qVisible'[TransferQueue][p] = qVisible[TransferQueue][p]
          /\ (Invalid(p) /\ ~StoredDigestMatches(blobs[p])) =>
                /\ ~(tw.pc = "upload" /\ Head(tw.batch) = p /\ tw.data = blobs[p].bytes
                       /\ s3' # s3)
                /\ blobs'[p].exists
                /\ \A r \in audit' \ audit : r.BlobName # p ]_vars

\* C14: no upload before validation -- the transfer worker writes to the
\* remote store only in an attempt whose metadata read found
\* validationstatus=valid; for a message naming a blob whose validationstatus
\* is unset or invalid it uploads nothing, writes no metadata and leaves the
\* message unacknowledged.
C14_NoUploadBeforeValidation ==
    [][ /\ (s3' # s3 \/ landed' # landed) => tw.pc = "upload"
        /\ (tw'.pc = "upload" /\ tw' # tw) => (tw.pc = "download" /\ tw'.batch = tw.batch)
        /\ (tw'.pc = "download" /\ tw' # tw) =>
              (tw.pc = "getBlobInfo" /\ tw'.batch = tw.batch /\ Valid(Head(tw.batch)))
        /\ \A p \in Paths :
              (tw.pc = "getBlobInfo" /\ tw' # tw /\ Head(tw.batch) = p
                  /\ blobs[p].exists /\ ~Valid(p))
              => /\ tw'.pc \in {"getBlobInfo", "idle"}
                 /\ s3' = s3 /\ blobs' = blobs
                 /\ qVisible' = qVisible /\ qInvisible' = qInvisible ]_vars

\* the transfer worker has skipped the message of a blob that is not valid:
\* the message is still hidden and unacknowledged
C14_Witness ==
    \E p \in Paths :
        /\ tw.pc = "idle" /\ qInvisible[TransferQueue][p] > 0
        /\ blobs[p].exists /\ ~Valid(p)
        /\ faults = 0 /\ deletes = <<>>

\* the attributes written by validation and by transfer
ValidationAttributes(metadata) ==
    <<metadata.validationstatus, metadata.validationtimestamp>>
TransferAttributes(metadata) ==
    <<metadata.transferstatus, metadata.transfertimestamp, metadata.s3destination,
      metadata.s3etag>>

\* C15: the metadata writes of validation and transfer on one object
\* commute -- the SetMetadata of validation on an object that carries the
\* output of a transfer leaves the attributes written by transfer as they
\* are, and the SetMetadata of transfer on an object that carries the output
\* of a validation leaves the attributes written by validation as they are.
C15_MetadataWritesCommute ==
    [][ \A p \in Paths :
          /\ ( /\ vw.pc = "setMetadata" /\ vw' # vw /\ Head(vw.batch) = p
                /\ blobs[p].exists /\ blobs'[p] # blobs[p]
                /\ blobs[p].metadata.transferstatus # Nil )
              => TransferAttributes(blobs'[p].metadata) = TransferAttributes(blobs[p].metadata)
          /\ ( /\ tw.pc = "setMetadata" /\ tw' # tw /\ Head(tw.batch) = p
                /\ blobs[p].exists /\ blobs'[p] # blobs[p]
                /\ blobs[p].metadata.validationstatus # Nil )
              => ValidationAttributes(blobs'[p].metadata) = ValidationAttributes(blobs[p].metadata)
      ]_vars

\* C16: when the last attempt of a tick has failed the status becomes
\* "error: <msg>" and the goroutine goes back to its select (the runtime is
\* not terminated); from there the processing function is invoked again on
\* a later tick, unless the worker is stopped.
C16_ErrorStatusKeepsTicking ==
    /\ [][ \A i \in 1..MaxStarts :
              ( /\ routines[i].pc = "returned" /\ routines[i].err # Nil
                /\ routines[i].attempt = retryCount - 1
                /\ routines'[i] # routines[i] )
              => (HasErrorPrefix(status') /\ routines'[i].pc = "select") ]_vars
    /\ \A i \in 1..MaxStarts :
          (routines[i].pc = "select" /\ HasErrorPrefix(status))
              ~> (routines[i].pc = "processFn" \/ cancelled)

\* the only goroutine of the worker, whose tick has ended in the error
\* status, is in the first attempt of a later tick
C16_Witness ==
    /\ HasErrorPrefix(status) /\ ~cancelled
    /\ routines[1].pc = "processFn" /\ routines[1].attempt = 0
    /\ \A i \in 2..MaxStarts : routines[i].pc = "none"

C18_ProcessingSerialized ==
    Cardinality({i \in 1..MaxStarts : routines[i].pc = "processFn"}) <= 1

\* C19: after a shutdown signal the process completes its shutdown and
\* exits, even if a call of the processing function that is in flight has
\* not returned when the shutdown deadline is reached.
C19_ShutdownCompletes ==
    (sd.pc = "stopWorkers") ~> (sd.pc = "exited")

\* C20: the health endpoint answers 503 if and only if the status of at
\* least one registered worker begins with error, whatever workers were
\* registered.
C20_HealthIffError ==
    srv.response # 0 =>
        (srv.response = 503 <=> \E i \in DOMAIN srv.workers : HasErrorPrefix(srv.workers[i]))

\* a source file of f, payload or companion, leaves the drop in this step
RemovedFromDrop(f) ==
    \/ drop[f].data # Nil /\ drop'[f].data = Nil
    \/ drop[f].md5 # <<>> /\ drop'[f].md5 = <<>>

\* C21: ingest removes a payload and its companion from the drop only after
\* that payload was admitted to the blob store and its validation message
\* was enqueued; a failure before that leaves both files in the drop.
C21_RemovalAfterAdmission ==
    [][ \A f \in Files :
          RemovedFromDrop(f) =>
              /\ fw.pc = "enqueue" /\ Head(fw.batch) = f
              /\ qVisible'[ValidationQueue][BlobNameOf(f)]
                     = qVisible[ValidationQueue][BlobNameOf(f)] + 1
              /\ drop[f].data \in {Nil, fw.data} ]_vars

\* C22: every blob the ingest worker creates holds bytes whose MD5 is the
\* digest read from the companion file and carries the full admission
\* metadata (checksum, checksumAlgorithm MD5, vesselid, timestamp) from the
\* same write; a payload whose MD5 differs from the companion digest is
\* neither uploaded nor queued for validation.
C22_AdmissionComplete ==
    /\ [](fw.pc \in {"upload", "enqueue"} => calculateMD5(fw.data) = fw.hash)
    /\ [][ fw' # fw =>
            /\ blobs' # blobs =>
                  /\ fw.pc = "upload"
                  /\ LET f == Head(fw.batch) IN
                     blobs' = [blobs EXCEPT ![BlobNameOf(f)] =
                                  Blob(fw.data,
                                       AdmissionMetadata(calculateMD5(fw.data), ExtractVesselID(f),
                                                         "MD5", now),
                                       blobs'[BlobNameOf(f)].lastModified)]
            /\ qVisible' # qVisible => fw.pc = "enqueue" ]_vars

C22_Witness ==
    /\ fw.pc = "enqueue"
    /\ LET p == BlobNameOf(Head(fw.batch)) IN
       /\ blobs[p].exists /\ blobs[p].bytes = fw.data
       /\ blobs[p].metadata.checksumAlgorithm = "MD5"
       /\ blobs[p].metadata.checksum = fw.hash

\* the messages of queue q that name p, visible or hidden
Pending(q, p) == qVisible[q][p] + qInvisible[q][p]
PendingNext(q, p) == qVisible'[q][p] + qInvisible'[q][p]

\* C23: however often a transfer message is delivered before a delivery
\* succeeds, it is deleted from the transfer queue once and only when the
\* payload has been recorded transferred, and at most one cleanup message
\* is enqueued for it, in the step that deletes it.
C23_OneCleanupPerTransferMessage ==
    [][ \A p \in Paths :
          /\ PendingNext(TransferQueue, p) \in
                 {Pending(TransferQueue, p), Pending(TransferQueue, p) - 1}
          /\ PendingNext(TransferQueue, p) < Pending(TransferQueue, p)
                 => (Transferred(p) /\ s3[S3KeyFor(p, blobs[p].metadata)] = blobs[p].bytes)
          /\ PendingNext(CleanupQueue, p) \in
                 {Pending(CleanupQueue, p), Pending(CleanupQueue, p) + 1}
          /\ PendingNext(CleanupQueue, p) > Pending(CleanupQueue, p)
                 => PendingNext(TransferQueue, p) < Pending(TransferQueue, p) ]_vars

C23_Witness ==
    \E p \in Paths :
        /\ faults > 0
        /\ Transferred(p)
        /\ Pending(TransferQueue, p) = 0
        /\ Pending(CleanupQueue, p) = 1
        /\ tw.pc = "idle"

\* C24: on every tick, the immediate first one after Start included, the
\* processing function is invoked at least once, whatever retry count is
\* configured (0 included).
C24_EveryTickInvokes ==
    [][ \A i \in 1..MaxStarts :
          ( /\ routines[i].pc = "process" /\ routines[i].attempt = 0
            /\ routines'[i] # routines[i] )
              => routines'[i].pc = "processFn" ]_vars

ItemTransferFails(p) ==
    /\ tw.pc = "getBlobInfo" /\ Head(tw.batch) = p
    /\ ~blobs[p].exists \/ blobs[p].metadata.validationstatus # "valid"

\* C26: when the transfer of a dequeued item fails, the failure is retried
\* within the tick and after retryCount failed attempts the transfer
\* worker's status begins with error; the worker keeps running.
C26_ItemFailureSetsErrorStatus ==
    \A p \in Paths : ItemTransferFails(p) ~> HasErrorPrefix(status)

\* C27: a stage message that names a blob missing from the store is
\* acknowledged: the worker deletes it from its queue (and advances
\* nothing: no certificate, no delete).
C27_MissingObjectAcknowledged ==
    /\ \A p \in Paths :
          (~blobs[p].exists /\ Pending(CleanupQueue, p) > 0) ~> (Pending(CleanupQueue, p) = 0)
    /\ [][ \A p \in Paths :
             (cw.pc = "getProperties" /\ Head(cw.batch).name = p /\ ~blobs[p].exists)
                 => (audit' = audit /\ blobs' = blobs) ]_vars

\* the blob names a checksum algorithm other than MD5 and SHA256
UnsupportedAlgorithm(p) ==
    /\ blobs[p].exists
    /\ ToUpper(blobs[p].metadata.checksumAlgorithm) \notin {"MD5", "SHA256", ""}

\* C28: a blob whose checksumAlgorithm is neither MD5 nor SHA256 is not
\* retried: the outcome is recorded on the blob, its validation message is
\* acknowledged and not processed again, and no transfer message is
\* enqueued for it.
C28_UnsupportedAlgorithmIsTerminal ==
    /\ \A p \in Paths :
          (UnsupportedAlgorithm(p) /\ Pending(ValidationQueue, p) > 0)
              ~> (Pending(ValidationQueue, p) = 0 /\ blobs[p].metadata.validationstatus # Nil)
    /\ [](\A p \in Paths : UnsupportedAlgorithm(p) => Pending(TransferQueue, p) = 0)

\* C29: a stage message is deleted only after the effect of its stage is
\* recorded: a validation message when validationstatus is written on the
\* blob (or the blob has been deleted by cleanup since), a transfer message
\* when a transfer has written transferstatus=transferred on the blob, a
\* cleanup message when the blob is deleted; and the message of the next
\* stage is enqueued only in the step whose acknowledgement succeeded.
C29_AckAfterEffect ==
    [][ \A p \in Paths :
          /\ PendingNext(ValidationQueue, p) < Pending(ValidationQueue, p)
                 => (~blobs[p].exists \/ blobs[p].metadata.validationstatus # Nil)
          /\ PendingNext(TransferQueue, p) < Pending(TransferQueue, p)
                 => p \in everTransferred
          /\ PendingNext(CleanupQueue, p) < Pending(CleanupQueue, p)
                 => (~blobs'[p].exists /\ \E k \in DOMAIN deletes' : deletes'[k].name = p)
          /\ PendingNext(TransferQueue, p) > Pending(TransferQueue, p)
                 => PendingNext(ValidationQueue, p) = Pending(ValidationQueue, p) - 1
          /\ PendingNext(CleanupQueue, p) > Pending(CleanupQueue, p)
                 => PendingNext(TransferQueue, p) = Pending(TransferQueue, p) - 1 ]_vars

C29_Witness ==
    \E p \in Paths :
        /\ ~blobs[p].exists /\ Len(deletes) > 0
        /\ \A q \in Queues : Pending(q, p) = 0
        /\ faults > 0

\* C30: when validation has recorded a result on the blob and acknowledges
\* the message, a transfer message for the same path is enqueued if and
\* only if the result is valid.
C30_TransferIffValid ==
    [][ \A p \in Paths :
          ( /\ vw.pc = "deleteMessage" /\ Head(vw.batch) = p
            /\ PendingNext(ValidationQueue, p) < Pending(ValidationQueue, p) )
              => ( PendingNext(TransferQueue, p) = Pending(TransferQueue, p) + 1
                       <=> vw.isValid ) ]_vars

\* C31: for every configuration of the three queue names the validation
\* worker enqueues transfer messages on the queue the transfer worker
\* dequeues from, the transfer worker enqueues cleanup messages on the queue
\* the cleanup worker dequeues from, and no worker enqueues on its own input
\* queue.
C31_QueuesChained ==
    call.fn = "queues" =>
       /\ call.transferTo # <<>> =>
             /\ call.transferTo = call.twQueueName
             /\ call.transferTo # call.vwQueueName
       /\ call.cleanupTo # <<>> =>
             /\ call.cleanupTo = call.cwQueueName
             /\ call.cleanupTo # call.twQueueName

\* C32: every read of a metadata attribute by the validate, transfer and
\* cleanup stages finds the attribute, whatever the letter case of the key
\* under which the store returns it: the value read is the value stored.
C32_ReadsFindAttribute ==
    (call.fn = "metadata" /\ call.read # <<>>) =>
        \A w \in DOMAIN call.read[2] : call.read[2][w] = call.attrs[w]

\* C33: every digest comparison is case-insensitive -- the ingest check
\* admits a payload whose MD5 differs from the companion digest only in the
\* letter case of the hex digits, and the validation check finds a payload
\* valid whose digest differs from the stored checksum only in letter case.
C33_DigestCaseInsensitive ==
    /\ [][ ( /\ fw.pc = "retr" /\ fw' # fw /\ faults' = faults
             /\ drop[Head(fw.batch)].md5 # <<>>
             /\ drop[Head(fw.batch)].data # Nil
             /\ EqualFold(MD5Hex(drop[Head(fw.batch)].data),
                          readMD5FromFile(drop[Head(fw.batch)].md5)) )
              => fw'.pc = "upload" ]_vars
    /\ [][ ( /\ vw.pc = "verifyChecksum" /\ vw' # vw /\ faults' = faults
             /\ blobs[Head(vw.batch)].exists
             /\ EqualFold(DigestOf(ToUpper(vw.algorithm), blobs[Head(vw.batch)].bytes),
                          vw.expectedChecksum) )
              => (vw'.pc = "setMetadata" /\ vw'.isValid) ]_vars

\* the digits d follow the marker "-EKI" at position i of name n and are
\* followed by a "."
EKIMatch(n, i, d) ==
    /\ Len(d) >= 1
    /\ \A k \in 1..Len(d) : d[k] \in Digits
    /\ i + Len(EKIMarker) + Len(d) <= Len(n)
    /\ SubSeq(n, i, i + Len(EKIMarker) + Len(d)) = EKIMarker \o d \o <<".">>

\* the token t (not empty, without "_") follows "VESSEL" at position i of
\* name n and is followed by a "_"
VESSELMatch(n, i, t) ==
    /\ Len(t) >= 1
    /\ \A k \in 1..Len(t) : t[k] # "_"
    /\ i + Len(VESSELMarker) + Len(t) <= Len(n)
    /\ SubSeq(n, i, i + Len(VESSELMarker) + Len(t)) = VESSELMarker \o t \o <<"_">>

\* the pieces of n that can follow a marker
Pieces(n) == {SubSeq(n, i, j) : i \in 1..Len(n), j \in 1..Len(n)}

\* C34: ingest derives the vessel id from the file name as EKI<digits> when
\* the name matches *-EKI<digits>.*; otherwise VESSEL<token> when it
\* contains VESSEL<token>_; otherwise unknown.
C34_VesselDerivation ==
    (call.fn = "vesselID" /\ call.vesselID # <<>>) =>
        LET n == call.dataFileName
            eki == {d \in Pieces(n) : \E i \in 1..Len(n) : EKIMatch(n, i, d)}
            ves == {t \in Pieces(n) : \E i \in 1..Len(n) : VESSELMatch(n, i, t)}
        IN IF eki # {} THEN \E d \in eki : call.vesselID = <<"E", "K", "I">> \o d
           ELSE IF ves # {} THEN \E t \in ves : call.vesselID = VESSELMarker \o t
           ELSE call.vesselID = <<"u", "n", "k", "n", "o", "w", "n">>

\* C35: within a single tick the processing function is invoked at most
\* retryCount times (the attempts are numbered 0 .. retryCount-1 and an
\* attempt follows only the back-off after a failed one), never again after
\* an attempt has succeeded, and a tick that succeeds does not set the error
\* status.
C35_BoundedAttempts ==
    /\ [](\A i \in 1..MaxStarts :
             routines[i].pc \in {"processFn", "returned", "backoff"}
                => routines[i].attempt < retryCount)
    /\ [][ \A i \in 1..MaxStarts :
              /\ (routines'[i].pc = "processFn" /\ routines[i].pc # "processFn")
                    => routines[i].pc = "process"
              /\ (routines[i].pc # "none" /\ routines'[i].pc # "none"
                  /\ routines'[i].attempt > routines[i].attempt)
                    => ( /\ routines[i].pc = "backoff" /\ routines[i].err # Nil
                         /\ routines'[i].attempt = routines[i].attempt + 1 )
              /\ (routines[i].pc = "returned" /\ routines[i].err = Nil
                  /\ routines'[i] # routines[i])
                    => (routines'[i].pc = "select" /\ status' = status) ]_vars

\* the second attempt of a tick has succeeded while the status is running
C35_Witness ==
    \E i \in 1..MaxStarts :
        /\ routines[i].pc = "returned" /\ routines[i].err = Nil
        /\ routines[i].attempt = 1 /\ retryCount = 2
        /\ status = Running

\* C36: a destruction certificate, once written to the audit directory, is
\* never overwritten or altered by a later record call: every certificate
\* that is stored stays stored as it is.
C36_CertificatesImmutable ==
    [][ \A r \in audit : r \in audit' ]_vars

\* the step is the return of Stop
StopReturning == ctl.pc = "wait" /\ ctl'.pc = "idle" /\ ctl'.last = "Stop"

\* the step is a call of Start
Starting == \E i \in 1..MaxStarts : routines[i].pc = "none" /\ routines'[i].pc = "process"

\* C37 (as stated): once the status is an error status it stays an error
\* status through every later tick, successful ticks included; only Stop
\* changes it, to stopped.
C37_ErrorUntilStop ==
    [][ (HasErrorPrefix(status) /\ status' # status)
           => (HasErrorPrefix(status') \/ (StopReturning /\ status' = Stopped)) ]_vars

\* C37: once the status is an error status it stays an error status through
\* every later tick, successful ticks included; a successful tick never
\* restores running: only the return of Stop (to stopped) and a further call
\* of Start (to running) change it.
C37_ErrorUntilStopOrStart ==
    [][ (HasErrorPrefix(status) /\ status' # status)
           => \/ HasErrorPrefix(status')
              \/ StopReturning /\ status' = Stopped
              \/ Starting /\ status' = Running ]_vars

\* the status is an error status and an attempt of a later tick has just
\* succeeded
C37_Witness ==
    /\ HasErrorPrefix(status)
    /\ \E i \in 1..MaxStarts : routines[i].pc = "returned" /\ routines[i].err = Nil

\* Stop has returned and Start has been called after it
Restarted == cancelled /\ ctl.pc = "idle" /\ ctl.last = "Start"

\* C38 (as stated): after Stop, a later Start does not resume periodic
\* processing: the processing function is invoked only within the one
\* immediate tick, the loop then exits, and Status reports running.
C38_RestartRunsOneTick ==
    /\ [][ \A i \in 1..MaxStarts :
              (Restarted /\ routines[i].pc = "select") => routines'[i].pc # "process" ]_vars
    /\ [](Restarted => status = Running)
    /\ \A i \in 1..MaxStarts :
          (Restarted /\ routines[i].pc \notin {"none", "done"}) ~> (routines[i].pc = "done")

\* C38: after Stop, a later Start does not resume periodic processing: the
\* context stays cancelled, every goroutine of the worker leaves its loop
\* (after the immediate tick, and any tick that its select takes while the
\* ticker is due), and Status does not report stopped: it reports running,
\* or the error status of a failed tick.
C38_RestartDoesNotResume ==
    /\ [][ cancelled => cancelled' ]_vars
    /\ [](Restarted => (status = Running \/ HasErrorPrefix(status)))
    /\ \A i \in 1..MaxStarts :
          (Restarted /\ routines[i].pc \notin {"none", "done"}) ~> (routines[i].pc = "done")

\* the goroutine of the Start that followed Stop has left its loop, and
\* Status reports running
C38_Witness ==
    /\ Restarted /\ status = Running
    /\ routines[1].pc = "done" /\ routines[2].pc = "done"

\* C39: crash safety -- in every reachable state every blob that is neither
\* validationstatus=invalid nor transferstatus=transferred is named by at
\* least one pending message (visible or invisible) of the validation or
\* the transfer queue.
C39_NoStrandedObject ==
    \A p \in Paths :
        (blobs[p].exists /\ ~Invalid(p) /\ ~Transferred(p))
            => Pending(ValidationQueue, p) + Pending(TransferQueue, p) >= 1

Quiescent ==
    /\ fw.pc = "idle" /\ vw.pc = "idle" /\ tw.pc = "idle" /\ cw.pc = "idle"
    /\ \A q \in Queues, p \in Paths : qVisible[q][p] = 0 /\ qInvisible[q][p] = 0
    /\ \A f \in Files : drop[f] = NoFile

\* C9: at-least-once -- an admitted payload reaches transferred or invalid;
\* as a final result: when nothing is in flight any more, every blob of the
\* container is transferred or invalid.
C9_AtLeastOnce ==
    Quiescent => \A p \in Paths : blobs[p].exists => (Transferred(p) \/ Invalid(p))

\* C10: idempotence -- a validation (transfer) message delivered for a blob
\* that already carried a validation (transfer) status leaves the blob's
\* stage attributes, the other queues and the audit directory as they were;
\* a cleanup message for a blob that is gone changes nothing.
C10_Idempotence ==
    [][ /\ \A p \in Paths :
             (vw.pc = "setMetadata" /\ vw' # vw /\ Head(vw.batch) = p /\ vw.was # Nil
                 /\ blobs'[p] # blobs[p] /\ blobs[p].exists /\ blobs'[p].exists)
             => StageAttributes(blobs'[p]) = StageAttributes(blobs[p])
        /\ (vw.pc = "deleteMessage" /\ vw' # vw /\ vw.was # Nil)
             => /\ qVisible'[TransferQueue] = qVisible[TransferQueue]
                /\ qVisible'[CleanupQueue] = qVisible[CleanupQueue]
                /\ audit' = audit
        /\ \A p \in Paths :
             (tw.pc = "setMetadata" /\ tw' # tw /\ Head(tw.batch) = p /\ tw.was = "transferred"
                 /\ blobs'[p] # blobs[p] /\ blobs[p].exists /\ blobs'[p].exists)
             => StageAttributes(blobs'[p]) = StageAttributes(blobs[p])
        /\ (tw.pc = "deleteMessage" /\ tw' # tw /\ tw.was = "transferred")
             => /\ qVisible'[CleanupQueue] = qVisible[CleanupQueue]
                /\ qVisible'[ValidationQueue] = qVisible[ValidationQueue]
                /\ audit' = audit
        /\ (cw.pc = "getProperties" /\ cw' # cw /\ ~blobs[Head(cw.batch).name].exists)
             => blobs' = blobs /\ audit' = audit /\ qVisible' = qVisible ]_vars

====
